---- MODULE Spec2Model ----
(***************************************************************************)
(* Model of the peer-to-peer network synchronisation subsystem of          *)
(* BookmarkManager: models/network/network_handler.py (NetworkHandler, the *)
(* server side), models/network/network_client.py (NetworkClient) and     *)
(* models/network/service_browser.py (ServiceBrowser and its listener)     *)
(* and models/network/network_connection_status.py.                        *)
(*                                                                         *)
(* Python dicts are functions whose DOMAIN is the set of keys.  Time is    *)
(* datetime.now() in seconds.  One handler task runs per inbound websocket *)
(* (task id = websocket); the registries are keyed by the remote address,  *)
(* as in the source.  An action is the code between two awaits.            *)
(***************************************************************************)
EXTENDS Integers, Sequences, FiniteSets, TLC

VARIABLES
    scenario,            \* which bounded environment drives the server
    now,                 \* datetime.now(), seconds
    task,                \* per websocket: handler position and socket state
    lastEv,              \* the last inbound frame, where it came in and its fate
    connections,         \* self.connections: address -> websocket
    peer_keys,           \* self.peer_keys: address -> public key
    connection_states,   \* self.connection_states: address -> state dict
    message_sizes,       \* self.message_sizes: address -> list of sizes
    connection_attempts, \* self.connection_attempts: address -> attempts dict
    blacklist,           \* self.blacklist: address -> unblock time
    attemptLog,          \* history: per address, the inbound attempts so far
    delivered,           \* record lists handed to the collaborator callback
    client,              \* the NetworkClient object and its tasks
    wire,                \* the client's transports and what travels on them
    hist,                \* history: what the client's operations did
    server,              \* NetworkHandler: running flag, sweeps, listener, zeroconf
    browser,             \* ServiceBrowser: running flag, sweep, listener, zeroconf
    lastCall,            \* history: the last start() or stop() call
    discovery,           \* NetworkServiceListener tables, the handlers, their calls
    status,              \* the NetworkConnectionStatus object and its last update
    received,            \* history: the last receive_bookmarks call of the client
    channel,             \* one message through _encrypt_message and _decrypt_message
    sweep,               \* the task of _cleanup_stale_connections
    security,            \* history: the last cycle of _cleanup_security_data
    extra,               \* client tasks of earlier connect() calls still alive
    idlog,               \* history: the message_ids of the client's sent messages
    halt                 \* where stop() stands and which sweep tasks are alive

vars == <<scenario, now, task, lastEv, connections, peer_keys, connection_states,
          message_sizes, connection_attempts, blacklist, attemptLog, delivered,
          client, wire, hist, server, browser, lastCall, discovery, status,
          received, channel, sweep, security, extra, idlog,
          halt>>

clientVars == <<client, wire, hist>>
lifeVars == <<server, browser, lastCall>>
lateVars == <<extra, idlog, halt>>
deskVars == <<discovery, status, received, channel, sweep, security, lateVars>>
clientLife == <<clientVars, lifeVars, deskVars>>

registries == <<connections, peer_keys, connection_states>>
guardData == <<message_sizes, connection_attempts, blacklist, attemptLog>>

(***************************************************************************)
(* Program constants                                                       *)
(***************************************************************************)
max_connections == 10
rate_limit == 100
max_message_size == 1048576
blacklist_duration == 1800
ONE_MINUTE == 60
MAX_ATTEMPTS_PER_MINUTE == 5
SIZE_WINDOW == 10
SIZE_FACTOR == 3
PUBLIC_KEY_SIZE == 32
BASE64_KEY_LEN == 44
None == 0 - 1

CODE_BLACKLISTED == 4001
CODE_TOO_MANY_ATTEMPTS == 4002
CODE_AT_CAPACITY == 4003
CODE_KEY_TIMEOUT == 4004
CODE_RATE_LIMIT == 4005
CODE_SIZE_LIMIT == 4006
CODE_INVALID_FORMAT == 4007
CODE_PROCESSING_ERROR == 4008
CODE_NORMAL == 1000

max_reconnect_attempts == 5
reconnect_delay == 5
CLIENT_KEY_TIMEOUT == 5
SERVER_KEY_TIMEOUT == 10

(***************************************************************************)
(* Bounds of the environments                                              *)
(***************************************************************************)
NGuardTasks == 7
NCapTasks == 11
MaxRateMsgs == 102
MaxSizeMsgs == 11
MaxBigFrames == 1
MaxProtoMsgs == 2
MaxMsgs == 2
MaxDials == 2
MaxPings == 1
MaxShakes == 2
MaxLifeTasks == 2
NWindowTasks == 15

GuardInstants == {0, 30, 60, 1799, 1800, 1830}
RateInstants == {0, 60, 61}
GuardAddrs == {1}
Keys == {"k1", "k2"}
Tokens == {"t1", "t2"}

Largest(a, b) == IF a > b THEN a ELSE b
AllTasks == 1..Largest(Largest(NGuardTasks, NCapTasks), NWindowTasks)

(***************************************************************************)
(* dict helpers                                                            *)
(***************************************************************************)
Put(f, k, v) == [x \in (DOMAIN f) \cup {k} |-> IF x = k THEN v ELSE f[x]]
Del(f, k) == [x \in (DOMAIN f) \ {k} |-> f[x]]
EmptyDict == [x \in {} |-> 0]

RECURSIVE SumSeq(_)
SumSeq(s) == IF s = <<>> THEN 0 ELSE Head(s) + SumSeq(Tail(s))

(***************************************************************************)
(* Handler task and socket records                                         *)
(***************************************************************************)
IdleTask == [pc |-> "idle", addr |-> 0, key |-> "", open |-> FALSE, code |-> 0,
             gates |-> <<>>, failed |-> "", registered |-> FALSE, regTime |-> None,
             nrecv |-> 0, nsent |-> 0]

NoPlain == [form |-> "none", type |-> "", hasData |-> FALSE, token |-> "", recs |-> <<>>]
NoMsg == [size |-> 0, env |-> "none", data |-> FALSE, sig |-> "none", key |-> "",
          cipher |-> "none", plain |-> NoPlain]
NoReply == [type |-> "", token |-> "", sig |-> ""]
NoEvent == [task |-> 0, n |-> 0, at |-> None, msg |-> NoMsg, gates |-> <<>>,
            failed |-> "", decrypts |-> FALSE, outcome |-> "none", code |-> 0,
            reply |-> NoReply,
            preCount |-> None, preReset |-> None, preToken |-> "", preSizes |-> <<>>]

\* close(code) on a websocket: the first close decides the close code
CloseSock(w, code) == IF w.open THEN [w EXCEPT !.open = FALSE, !.code = code] ELSE w

(***************************************************************************)
(* ConnectionGuard: _is_blacklisted                                        *)
(***************************************************************************)
BlockedAtInclusive(t, until) == t <= until
\* line 359: datetime.now() < self.blacklist[address]
BlockedAt(t, until) == t < until

_is_blacklisted(address) ==
    IF address \in DOMAIN blacklist
    THEN IF BlockedAt(now, blacklist[address])
         THEN [res |-> TRUE, blacklist |-> blacklist]
         ELSE [res |-> FALSE, blacklist |-> Del(blacklist, address)]
    ELSE [res |-> FALSE, blacklist |-> blacklist]

(***************************************************************************)
(* ConnectionGuard: _check_connection_attempts                             *)
(***************************************************************************)
DefaultAttempts == [count |-> 0, first_attempt |-> None, last_attempt |-> None]

AttemptsOf(address) ==
    IF address \in DOMAIN connection_attempts
    THEN connection_attempts[address] ELSE DefaultAttempts

TooManyAttemptsOffByOne(count) == count > MAX_ATTEMPTS_PER_MINUTE + 1
TooManyAttempts(count) == count > MAX_ATTEMPTS_PER_MINUTE

UnblockTime(t) == t + blacklist_duration

\* bl: the blacklist as _is_blacklisted left it
_check_connection_attempts(address, bl) ==
    LET attempts == AttemptsOf(address) IN
    IF attempts.first_attempt = None
    THEN [ok |-> TRUE, blacklist |-> bl,
          attempts |-> [attempts EXCEPT !.first_attempt = now, !.count = 1]]
    ELSE IF now - attempts.first_attempt < ONE_MINUTE
         THEN LET c == attempts.count + 1 IN
              IF TooManyAttempts(c)
              THEN [ok |-> FALSE, blacklist |-> Put(bl, address, UnblockTime(now)),
                    attempts |-> [attempts EXCEPT !.count = c]]
              ELSE [ok |-> TRUE, blacklist |-> bl,
                    attempts |-> [attempts EXCEPT !.count = c]]
         ELSE [ok |-> TRUE, blacklist |-> bl,
               attempts |-> [attempts EXCEPT !.first_attempt = now, !.count = 1]]

(***************************************************************************)
(* ConnectionGuard: capacity                                               *)
(***************************************************************************)
AtCapacity == Cardinality(DOMAIN connections) >= max_connections

(***************************************************************************)
(* ConnectionGuard: _check_rate_limit                                      *)
(***************************************************************************)
BudgetSpentOffByOne(messages) == messages > rate_limit
BudgetSpent(messages) == messages >= rate_limit

WindowExpired(t, last_reset) == t - last_reset > ONE_MINUTE

\* state = self.connection_states.get(address, {}): writes to the {} default are lost
_check_rate_limit(address) ==
    IF address \notin DOMAIN connection_states
    THEN [ok |-> TRUE, states |-> connection_states]
    ELSE LET state == connection_states[address]
             messages == state.message_count
             last_reset == state.rate_limit_reset
         IN  IF last_reset = None \/ WindowExpired(now, last_reset)
             THEN [ok |-> TRUE,
                   states |-> [connection_states EXCEPT
                                 ![address].message_count = 0,
                                 ![address].rate_limit_reset = now]]
             ELSE IF BudgetSpent(messages)
                  THEN [ok |-> FALSE, states |-> connection_states]
                  ELSE [ok |-> TRUE,
                        states |-> [connection_states EXCEPT
                                      ![address].message_count = messages + 1]]

(***************************************************************************)
(* ConnectionGuard: _check_message_size                                    *)
(***************************************************************************)
SizesOf(address) ==
    IF address \in DOMAIN message_sizes THEN message_sizes[address] ELSE <<>>

\* append, then drop the oldest sample once more than SIZE_WINDOW are held
SizeWindow(old, size) ==
    LET w == Append(old, size) IN IF Len(w) > SIZE_WINDOW THEN Tail(w) ELSE w

\* size > avg_size * 3 with avg_size = sum / len, over the window that already
\* holds the message itself
Suspicious(size, window) ==
    \/ size > max_message_size
    \/ size * Len(window) > SumSeq(window) * SIZE_FACTOR

_check_message_size(address, size) ==
    LET w == SizeWindow(SizesOf(address), size) IN
    [ok |-> ~Suspicious(size, w), sizes |-> Put(message_sizes, address, w)]

(***************************************************************************)
(* Wire format.  An inbound frame is described by what the server's parse  *)
(* steps make of it:                                                       *)
(*   env    json.loads(message): "badjson", "nonobj" (valid JSON, no       *)
(*          object) or "obj"                                               *)
(*   data   the envelope has a non-empty 'data'                            *)
(*   sig    'signature' is absent ("none"), the HMAC of the payload under  *)
(*          the payload's session token ("good") or anything else ("bad")  *)
(*   key    the sender key the ciphertext was boxed with                   *)
(*   cipher "ok" or "tampered"                                             *)
(*   plain  the decrypted text: form "badjson", "nonobj" or "obj" with its *)
(*          type ("absent" when the field is missing), whether it has a    *)
(*          'data' field, its session_token ("" when missing) and the      *)
(*          bookmark records it carries                                    *)
(***************************************************************************)
Plain(form, type, hasData, token, recs) ==
    [form |-> form, type |-> type, hasData |-> hasData, token |-> token, recs |-> recs]

Frame(size, env, data, sig, key, cipher, plain) ==
    [size |-> size, env |-> env, data |-> data, sig |-> sig, key |-> key,
     cipher |-> cipher, plain |-> plain]

\* NetworkClient._send_message: adds message_id, timestamp, session_token, signs
\* with the client's session token and boxes with the client's key
ClientFrame(payload, key, size) == Frame(size, "obj", TRUE, "good", key, "ok", payload)

\* NetworkClient._monitor_connection: {"type": "ping", "timestamp", "session_token"}
ClientPing(token, key, size) ==
    ClientFrame(Plain("obj", "ping", FALSE, token, <<>>), key, size)

\* NetworkClient.send_bookmarks: {"type": "bookmarks", "data": bookmarks}
ClientBookmarks(recs, token, key, size) ==
    ClientFrame(Plain("obj", "bookmarks", TRUE, token, recs), key, size)

(***************************************************************************)
(* PeerServer: _handle_message                                             *)
(***************************************************************************)
\* _decrypt_message: the peer key registered for the address opens the box
CanDecrypt(address, m) ==
    /\ address \in DOMAIN peer_keys
    /\ m.cipher = "ok"
    /\ peer_keys[address] = m.key

_validate_message(data) == data.type # "absent" /\ data.hasData

ResponseType(type) ==
    IF type = "ping" THEN "pong"
    ELSE IF type = "bookmarks" THEN "ack"
    ELSE "error"

\* the response echoes data.get('session_token', '') and is signed with it
Response(data) ==
    [type |-> ResponseType(data.type), token |-> data.token, sig |-> data.token]

Closed(code, states) ==
    [outcome |-> "close", code |-> code, reply |-> NoReply, states |-> states]

\* utf8ok: whether the bytes box.encrypt returns for the response (random nonce
\* and ciphertext) decode as UTF-8 in _encrypt_message
_handle_message(address, m, states, utf8ok) ==
    IF m.env = "badjson" THEN Closed(CODE_INVALID_FORMAT, states)
    ELSE IF m.env # "obj" THEN Closed(CODE_PROCESSING_ERROR, states)
    ELSE IF ~m.data \/ m.sig = "none" THEN Closed(CODE_PROCESSING_ERROR, states)
    ELSE IF ~CanDecrypt(address, m) THEN Closed(CODE_PROCESSING_ERROR, states)
    ELSE IF m.plain.form = "badjson" THEN Closed(CODE_INVALID_FORMAT, states)
    ELSE IF m.plain.form # "obj" THEN Closed(CODE_PROCESSING_ERROR, states)
    ELSE IF ~_validate_message(m.plain) THEN Closed(CODE_PROCESSING_ERROR, states)
    ELSE IF address \notin DOMAIN states THEN Closed(CODE_PROCESSING_ERROR, states)
    ELSE LET touched == [states EXCEPT ![address].last_message = now] IN
         IF ~utf8ok THEN Closed(CODE_PROCESSING_ERROR, touched)
         ELSE [outcome |-> "reply", code |-> 0, reply |-> Response(m.plain),
               states |-> touched]

(***************************************************************************)
(* PeerServer: _handle_connection, lines 159-174 (no await in between)     *)
(***************************************************************************)
Arrived(t) == \A u \in 1..(t - 1) : task[u].pc # "idle"

\* history of the attempts of one address: how many there were, when the first
\* and the sixth came, whether all came within a minute of the first, what
\* the server made of the last one and (in the environment that studies the
\* attempt window) the times of the last six
NoAttempts == [n |-> 0, firstAt |-> None, within |-> TRUE, sixthAt |-> None,
               at |-> None, code |-> 0, countBefore |-> 0, count |-> 0,
               until |-> None, recent |-> <<>>]

LastSix(times) ==
    IF Len(times) > MAX_ATTEMPTS_PER_MINUTE + 1 THEN Tail(times) ELSE times

LogAttempt(address, code, bl, attempts) ==
    LET old == IF address \in DOMAIN attemptLog THEN attemptLog[address] ELSE NoAttempts
        first == IF old.n = 0 THEN now ELSE old.firstAt
        within == old.within /\ now - first < ONE_MINUTE
    IN  Put(attemptLog, address,
            [n |-> old.n + 1, firstAt |-> first, within |-> within,
             sixthAt |-> IF old.n = MAX_ATTEMPTS_PER_MINUTE /\ within THEN now
                         ELSE old.sixthAt,
             at |-> now, code |-> code,
             countBefore |-> AttemptsOf(address).count, count |-> attempts.count,
             until |-> IF address \in DOMAIN bl THEN bl[address] ELSE None,
             recent |-> IF scenario = "window" THEN LastSix(Append(old.recent, now))
                        ELSE <<>>])

\* the three admission checks in the order of lines 162-174; a check that
\* fails ends the sequence
ConnectionGates(address) ==
    LET b == _is_blacklisted(address)
        c == _check_connection_attempts(address, b.blacklist)
    IN  IF b.res
        THEN [gates |-> <<"blacklist">>, failed |-> "blacklist",
              code |-> CODE_BLACKLISTED, blacklist |-> b.blacklist,
              counted |-> FALSE, attempts |-> AttemptsOf(address)]
        ELSE IF ~c.ok
        THEN [gates |-> <<"blacklist", "attempts">>, failed |-> "attempts",
              code |-> CODE_TOO_MANY_ATTEMPTS, blacklist |-> c.blacklist,
              counted |-> TRUE, attempts |-> c.attempts]
        ELSE IF AtCapacity
        THEN [gates |-> <<"blacklist", "attempts", "capacity">>, failed |-> "capacity",
              code |-> CODE_AT_CAPACITY, blacklist |-> c.blacklist,
              counted |-> TRUE, attempts |-> c.attempts]
        ELSE [gates |-> <<"blacklist", "attempts", "capacity">>, failed |-> "",
              code |-> 0, blacklist |-> c.blacklist,
              counted |-> TRUE, attempts |-> c.attempts]

Accept(t, address) ==
    /\ task[t].pc = "idle"
    /\ Arrived(t)
    /\ LET g == ConnectionGates(address) IN
       /\ blacklist' = g.blacklist
       /\ connection_attempts' = IF g.counted
                                 THEN Put(connection_attempts, address, g.attempts)
                                 ELSE connection_attempts
       /\ attemptLog' = LogAttempt(address, g.code, g.blacklist, g.attempts)
       /\ task' = [task EXCEPT ![t] =
                     [IdleTask EXCEPT !.addr = address, !.gates = g.gates,
                                      !.failed = g.failed, !.code = g.code,
                                      !.open = (g.failed = ""),
                                      !.pc = IF g.failed = "" THEN "handshake"
                                             ELSE "done"]]
    /\ UNCHANGED <<scenario, now, lastEv, registries, message_sizes, delivered>>

(***************************************************************************)
(* PeerServer: _handle_connection, lines 176-199: key exchange, register   *)
(***************************************************************************)
KeyTimeout == [kind |-> "timeout", len |-> 0, key |-> ""]
\* what NetworkClient.connect sends: public_key.encode(Base64Encoder).decode()
ClientKeyMsg(k) == [kind |-> "key", len |-> BASE64_KEY_LEN, key |-> k]
\* a text frame of exactly 32 bytes
RawKeyMsg(k) == [kind |-> "key", len |-> PUBLIC_KEY_SIZE, key |-> k]

\* PublicKey(peer_public_key.encode()) accepts exactly 32 bytes
KeyAccepted(keymsg) == keymsg.len = PUBLIC_KEY_SIZE

NewState(token) ==
    [connected |-> TRUE, last_connected |-> now, last_message |-> now,
     message_count |-> 0, rate_limit_reset |-> now, session_token |-> token]

Handshake(t, keymsg, token) ==
    /\ task[t].pc = "handshake"
    /\ task[t].open
    /\ LET address == task[t].addr IN
       IF keymsg.kind = "timeout"
       THEN /\ task' = [task EXCEPT ![t] =
                          [CloseSock(task[t], CODE_KEY_TIMEOUT) EXCEPT !.pc = "finally"]]
            /\ UNCHANGED registries
       ELSE IF ~KeyAccepted(keymsg)
       THEN /\ task' = [task EXCEPT ![t].pc = "finally"]
            /\ UNCHANGED registries
       ELSE /\ task' = [task EXCEPT ![t].pc = "open", ![t].key = keymsg.key,
                                    ![t].registered = TRUE, ![t].regTime = now]
            /\ connections' = Put(connections, address, t)
            /\ peer_keys' = Put(peer_keys, address, keymsg.key)
            /\ connection_states' = Put(connection_states, address, NewState(token))
    /\ UNCHANGED <<scenario, now, lastEv, guardData, delivered>>

(***************************************************************************)
(* PeerServer: _handle_connection, lines 204-217: one inbound frame        *)
(***************************************************************************)
MessageGatesSizeFirst(address, size) ==
    LET r == _check_rate_limit(address)
        z == _check_message_size(address, size)
    IN  IF ~z.ok
        THEN [gates |-> <<"size">>, failed |-> "size", code |-> CODE_SIZE_LIMIT,
              states |-> connection_states, sizes |-> z.sizes]
        ELSE IF ~r.ok
        THEN [gates |-> <<"size", "rate">>, failed |-> "rate", code |-> CODE_RATE_LIMIT,
              states |-> r.states, sizes |-> z.sizes]
        ELSE [gates |-> <<"rate", "size", "handle">>, failed |-> "", code |-> 0,
              states |-> r.states, sizes |-> z.sizes]

\* the two per-message checks in the order of lines 206-212, before
\* _handle_message decrypts the frame
MessageGates(address, size) ==
    LET r == _check_rate_limit(address)
        z == _check_message_size(address, size)
    IN  IF ~r.ok
        THEN [gates |-> <<"rate">>, failed |-> "rate", code |-> CODE_RATE_LIMIT,
              states |-> r.states, sizes |-> message_sizes]
        ELSE IF ~z.ok
        THEN [gates |-> <<"rate", "size">>, failed |-> "size", code |-> CODE_SIZE_LIMIT,
              states |-> r.states, sizes |-> z.sizes]
        ELSE [gates |-> <<"rate", "size", "handle">>, failed |-> "", code |-> 0,
              states |-> r.states, sizes |-> z.sizes]

Event(t, m, gates, failed, outcome, code, reply) ==
    LET address == task[t].addr
        known == address \in DOMAIN connection_states
    IN  [task |-> t, n |-> task[t].nrecv + 1, at |-> now, msg |-> m, gates |-> gates,
         failed |-> failed, decrypts |-> failed = "" /\ CanDecrypt(address, m),
         outcome |-> outcome, code |-> code, reply |-> reply,
         preCount |-> IF known THEN connection_states[address].message_count ELSE None,
         preReset |-> IF known THEN connection_states[address].rate_limit_reset ELSE None,
         preToken |-> IF known THEN connection_states[address].session_token ELSE "",
         preSizes |-> SizesOf(address)]

Receive(t, m, utf8ok) ==
    /\ task[t].pc = "open"
    /\ task[t].open
    /\ LET address == task[t].addr
           g == MessageGates(address, m.size)
           h == _handle_message(address, m, g.states, utf8ok)
           counted == [task[t] EXCEPT !.nrecv = @ + 1]
       IN  IF g.failed # ""
           THEN /\ task' = [task EXCEPT ![t] =
                              [CloseSock(counted, g.code) EXCEPT !.pc = "finally"]]
                /\ connection_states' = g.states
                /\ message_sizes' = g.sizes
                /\ lastEv' = Event(t, m, g.gates, g.failed, "close", g.code, NoReply)
           ELSE /\ task' = [task EXCEPT ![t] =
                              IF h.outcome = "close"
                              THEN [CloseSock(counted, h.code) EXCEPT !.pc = "finally"]
                              ELSE [counted EXCEPT !.nsent = @ + 1]]
                /\ connection_states' = h.states
                /\ message_sizes' = g.sizes
                /\ lastEv' = Event(t, m, g.gates, "", h.outcome, h.code, h.reply)
    /\ UNCHANGED <<scenario, now, connections, peer_keys, connection_attempts,
                   blacklist, attemptLog, delivered>>

\* the peer closes the socket, or the transport drops
PeerClose(t) ==
    /\ task[t].pc \in {"handshake", "open"}
    /\ task[t].open
    /\ task' = [task EXCEPT ![t] = [CloseSock(task[t], CODE_NORMAL) EXCEPT !.pc = "finally"]]
    /\ UNCHANGED <<scenario, now, lastEv, registries, guardData, delivered>>

\* recv() on a socket that somebody else closed: ConnectionClosed, then finally
LoopEnd(t) ==
    /\ task[t].pc \in {"handshake", "open"}
    /\ ~task[t].open
    /\ task' = [task EXCEPT ![t].pc = "finally"]
    /\ UNCHANGED <<scenario, now, lastEv, registries, guardData, delivered>>

(***************************************************************************)
(* PeerServer: _close_connection(address), called from the finally clause  *)
(***************************************************************************)
\* lines 228-230: await self.connections[address].close()
CloseBegin(t) ==
    /\ task[t].pc = "finally"
    /\ LET address == task[t].addr IN
       IF address \in DOMAIN connections
       THEN LET target == connections[address]
                closed == [task EXCEPT ![target] = CloseSock(task[target], CODE_NORMAL)]
            IN  /\ task' = [closed EXCEPT ![t].pc = "closewait"]
                /\ UNCHANGED registries
       ELSE /\ task' = [task EXCEPT ![t] = [CloseSock(task[t], CODE_NORMAL) EXCEPT
                                              !.pc = "done"]]
            /\ peer_keys' = Del(peer_keys, address)
            /\ connection_states' = Del(connection_states, address)
            /\ UNCHANGED connections
    /\ UNCHANGED <<scenario, now, lastEv, guardData, delivered>>

\* lines 233-239: del self.connections[address] (KeyError when the entry is gone,
\* which skips the other two deletions), then peer_keys and connection_states
CloseFinish(t) ==
    /\ task[t].pc = "closewait"
    /\ LET address == task[t].addr IN
       /\ task' = [task EXCEPT ![t] = [CloseSock(task[t], CODE_NORMAL) EXCEPT !.pc = "done"]]
       /\ IF address \in DOMAIN connections
          THEN /\ connections' = Del(connections, address)
               /\ peer_keys' = Del(peer_keys, address)
               /\ connection_states' = Del(connection_states, address)
          ELSE UNCHANGED registries
    /\ UNCHANGED <<scenario, now, lastEv, guardData, delivered>>

(***************************************************************************)
(* Time                                                                    *)
(***************************************************************************)
\* time passes until a later instant of the environment
Tick(instant) ==
    /\ instant > now
    /\ now' = instant
    /\ UNCHANGED <<scenario, task, lastEv, registries, guardData, delivered>>

(***************************************************************************)
(* NetworkClient: the object, its tasks and its transports                 *)
(*                                                                         *)
(* None is "" for peer_key and session_token.  Bookmark record lists are   *)
(* numbered 1..MaxMsgs.  A websocket is the number of the dial that made   *)
(* it.  Fields of the client beyond those of __init__:                     *)
(*   connecting  where connect() stands: "no", "dial" (websockets.connect) *)
(*               or "keywait" (recv of the peer key); caller: "user" or    *)
(*               "monitor"                                                 *)
(*   drain       _process_message_queue: "none", "sleep" (between ticks)   *)
(*               or "sending" (inside websocket.send, inflight on sendsock)*)
(*   monitor     _monitor_connection: "none", "sleep", "backoff" (the      *)
(*               sleep of _handle_connection_loss) or "connect"            *)
(* wire: reachable (the peer accepts dials), sockets (dials made), open    *)
(* (sockets the client has not closed), alive (sockets that deliver),      *)
(* c2s / s2c (the key frame sent on the newest socket in each direction),  *)
(* sent (the messages whose send succeeded).                               *)
(***************************************************************************)
ClientKey == "kc"
ServerKey == "ks"
ClientToken == "c1"

Message(recs) == [type |-> "bookmarks", data |-> recs]
NoMessage == [type |-> "", data |-> 0]

NewClient ==
    [websocket |-> None, peer_key |-> "", connected |-> FALSE, message_queue |-> <<>>,
     reconnect_attempts |-> 0, session_token |-> ClientToken, message_counter |-> 0,
     connecting |-> "no", caller |-> "", drain |-> "none", inflight |-> NoMessage,
     sendsock |-> None, monitor |-> "none"]

NoKeyMsg == [kind |-> "none", len |-> 0, key |-> ""]
KeyClosed == [kind |-> "closed", len |-> 0, key |-> ""]
\* what the server sends at line 187: public_key.encode(Base64Encoder).decode()
ServerKeyMsg(k) == [kind |-> "key", len |-> BASE64_KEY_LEN, key |-> k]

NoWire == [reachable |-> TRUE, sockets |-> 0, open |-> {}, alive |-> {}, dialAt |-> None,
           stalled |-> FALSE, c2s |-> NoKeyMsg, s2c |-> NoKeyMsg, sent |-> <<>>]

\* history of the client: the outcome of the last connect() that dialled
\* ("ok", "failed" or "timeout"); since the last successful connect() the
\* backoff delays slept, whether connection_lost was emitted, what
\* _handle_connection_loss did ("sleeping", "noop", "crashed", "dialled" or
\* "gaveup") and the result of the last drain tick; the fate of every record
\* list ("new", "queued", "sent", "refused" or "cleared"); the last of
\* disconnect() and cleanup() with the one before it; flip changes with every
\* tick and every call
NoHist == [connect |-> "none", delays |-> <<>>, lost |-> FALSE, reconnect |-> "none",
           fate |-> [m \in 1..MaxMsgs |-> "new"],
           lastDrain |-> [result |-> "none", flip |-> FALSE],
           lastOp |-> [op |-> "none", prev |-> "none", flip |-> FALSE]]

Drained(result) == [result |-> result, flip |-> ~hist.lastDrain.flip]
Closing(op) == [op |-> op, prev |-> hist.lastOp.op, flip |-> ~hist.lastOp.flip]

\* NetworkClient._close_connection
_close_connection_keeps_socket(c) ==
    IF c.websocket # None THEN [c EXCEPT !.peer_key = "", !.connected = FALSE] ELSE c

_close_connection(c) ==
    IF c.websocket # None
    THEN [c EXCEPT !.websocket = None, !.peer_key = "", !.connected = FALSE]
    ELSE c

\* await self.websocket.close() of line 238
Hangup(c, w) ==
    IF c.websocket # None
    THEN [w EXCEPT !.open = @ \ {c.websocket}, !.alive = @ \ {c.websocket}]
    ELSE w

\* lines 52-55 and 65-68: _close_connection(), then the exception reaches the
\* caller; a monitor task that called connect() ends with it
Failed(c) ==
    [_close_connection(c) EXCEPT !.connecting = "no", !.caller = "",
                                 !.monitor = IF c.caller = "monitor" THEN "none" ELSE @]

\* connect(), lines 36-45: called by the application
ConnectCall ==
    /\ client.connecting = "no"
    /\ IF client.connected
       THEN UNCHANGED <<client, wire, hist>>
       ELSE /\ client' = [client EXCEPT !.connecting = "dial", !.caller = "user"]
            /\ UNCHANGED <<wire, hist>>

\* connect(), lines 42-49: websockets.connect answers; the client sends its key
Dial ==
    /\ client.connecting = "dial"
    /\ IF wire.reachable
       THEN LET sock == wire.sockets + 1 IN
            /\ client' = [client EXCEPT !.websocket = sock, !.connecting = "keywait"]
            /\ wire' = [wire EXCEPT !.sockets = sock, !.open = @ \cup {sock},
                                    !.alive = @ \cup {sock}, !.dialAt = now,
                                    !.c2s = ClientKeyMsg(ClientKey), !.s2c = NoKeyMsg]
            /\ UNCHANGED hist
       ELSE /\ client' = Failed(client)
            /\ wire' = Hangup(client, wire)
            /\ hist' = [hist EXCEPT !.connect = "failed"]

\* connect(), lines 50-63: recv() of the peer key returns, times out or raises
KeyReply(reply) ==
    /\ client.connecting = "keywait"
    /\ IF client.websocket # None /\ reply.kind = "key" /\ KeyAccepted(reply)
       THEN /\ client' = [client EXCEPT !.peer_key = reply.key, !.connected = TRUE,
                                        !.reconnect_attempts = 0, !.connecting = "no",
                                        !.caller = "", !.drain = "sleep",
                                        !.monitor = "sleep"]
            /\ hist' = [hist EXCEPT !.connect = "ok", !.delays = <<>>,
                                    !.reconnect = "none",
                                    !.lastDrain = [@ EXCEPT !.result = "none"]]
            /\ UNCHANGED wire
       ELSE /\ client' = Failed(client)
            /\ wire' = Hangup(client, wire)
            /\ hist' = [hist EXCEPT !.connect = IF reply.kind = "timeout"
                                                THEN "timeout" ELSE "failed"]

\* _send_message, lines 102-125: connected, a session token to sign with, a
\* peer key to box with, ciphertext that decodes as text (utf8ok) and a
\* transport that takes the frame
SendOk(c, utf8ok) ==
    /\ c.connected
    /\ c.session_token # ""
    /\ c.peer_key # ""
    /\ utf8ok
    /\ c.websocket \in wire.alive

\* send_bookmarks(bookmarks)
send_bookmarks(recs, utf8ok) ==
    IF ~client.connected
    THEN /\ client' = [client EXCEPT !.message_queue = Append(@, Message(recs))]
         /\ hist' = [hist EXCEPT !.fate[recs] = "queued"]
         /\ UNCHANGED wire
    ELSE IF SendOk(client, utf8ok)
    THEN /\ client' = [client EXCEPT !.message_counter = @ + 1]
         /\ wire' = [wire EXCEPT !.sent = Append(@, Message(recs))]
         /\ hist' = [hist EXCEPT !.fate[recs] = "sent"]
    ELSE /\ hist' = [hist EXCEPT !.fate[recs] = "refused"]
         /\ UNCHANGED <<client, wire>>

(***************************************************************************)
(* NetworkClient: _process_message_queue (the drain task)                  *)
(***************************************************************************)
RequeueDropped(queue, message) == queue
\* line 174: self.message_queue.append(message)
Requeue(queue, message) == Append(queue, message)

\* one pass of the loop up to the await inside _send_message: the task ends
\* when the client is not connected; else it pops the head and either fails
\* before the await (line 174 follows at once) or waits in websocket.send
DrainTick(utf8ok) ==
    /\ client.drain = "sleep"
    /\ IF ~client.connected
       THEN /\ client' = [client EXCEPT !.drain = "none"]
            /\ UNCHANGED <<wire, hist>>
       ELSE IF client.message_queue = <<>>
       THEN UNCHANGED <<client, wire, hist>>
       ELSE LET message == Head(client.message_queue)
                rest == Tail(client.message_queue)
            IN  IF client.session_token # "" /\ client.peer_key # "" /\ utf8ok
                THEN /\ client' = [client EXCEPT !.message_queue = rest,
                                                 !.drain = "sending",
                                                 !.inflight = message,
                                                 !.sendsock = client.websocket]
                     /\ hist' = [hist EXCEPT !.lastDrain = Drained("sending")]
                     /\ UNCHANGED wire
                ELSE /\ client' = [client EXCEPT
                                     !.message_queue = Requeue(rest, message)]
                     /\ hist' = [hist EXCEPT !.lastDrain = Drained("requeued")]
                     /\ UNCHANGED wire

\* websocket.send returns or raises (closed socket, dead transport, timeout)
DrainDone ==
    /\ client.drain = "sending"
    /\ LET message == client.inflight IN
       IF client.sendsock \in wire.alive
       THEN /\ client' = [client EXCEPT !.drain = "sleep", !.inflight = NoMessage,
                                        !.sendsock = None, !.message_counter = @ + 1]
            /\ wire' = [wire EXCEPT !.sent = Append(@, message)]
            /\ hist' = [hist EXCEPT !.fate[message.data] = "sent",
                           !.lastDrain = Drained("sent")]
       ELSE /\ client' = [client EXCEPT !.drain = "sleep", !.inflight = NoMessage,
                                        !.sendsock = None,
                                        !.message_queue = Requeue(@, message)]
            /\ hist' = [hist EXCEPT !.lastDrain = Drained("requeued")]
            /\ UNCHANGED wire

(***************************************************************************)
(* NetworkClient: _monitor_connection and _handle_connection_loss          *)
(***************************************************************************)
RECURSIVE Pow2(_)
Pow2(n) == IF n = 0 THEN 1 ELSE 2 * Pow2(n - 1)

\* line 90: reconnect_delay * (2 ** (reconnect_attempts - 1))
Backoff(attempt) == reconnect_delay * Pow2(attempt - 1)

\* line 97: no attribute connection_lost is ever set on a NetworkClient
has_connection_lost == FALSE

\* one pass of the ping loop; a failed ping enters _handle_connection_loss up
\* to its sleep (or, with the attempts used up, to its end)
MonitorTick(utf8ok) ==
    /\ client.monitor = "sleep"
    /\ IF ~client.connected
       THEN /\ client' = [client EXCEPT !.monitor = "none"]
            /\ UNCHANGED <<wire, hist>>
       ELSE IF SendOk(client, utf8ok)
       THEN /\ client' = [client EXCEPT !.message_counter = @ + 1]
            /\ UNCHANGED <<wire, hist>>
       ELSE IF client.reconnect_attempts < max_reconnect_attempts
       THEN /\ client' = [client EXCEPT !.reconnect_attempts = @ + 1,
                                        !.monitor = "backoff"]
            /\ hist' = [hist EXCEPT !.reconnect = "sleeping",
                           !.delays = Append(@, Backoff(client.reconnect_attempts + 1))]
            /\ UNCHANGED wire
       ELSE /\ client' = [client EXCEPT !.connected = FALSE, !.monitor = "none"]
            /\ hist' = [hist EXCEPT !.reconnect = "gaveup",
                                    !.lost = has_connection_lost]
            /\ UNCHANGED wire

\* line 93, after the sleep: self.websocket.remote_address raises when the
\* socket is gone; connect() returns at line 38 when connected is still set;
\* in both cases the task ends (line 84)
Reconnect ==
    /\ client.monitor = "backoff"
    /\ client.connecting = "no"
    /\ IF client.websocket = None
       THEN /\ client' = [client EXCEPT !.monitor = "none"]
            /\ hist' = [hist EXCEPT !.reconnect = "crashed"]
       ELSE IF client.connected
       THEN /\ client' = [client EXCEPT !.monitor = "none"]
            /\ hist' = [hist EXCEPT !.reconnect = "noop"]
       ELSE /\ client' = [client EXCEPT !.monitor = "connect", !.connecting = "dial",
                                        !.caller = "monitor"]
            /\ hist' = [hist EXCEPT !.reconnect = "dialled"]
    /\ UNCHANGED wire

(***************************************************************************)
(* NetworkClient: disconnect and cleanup                                   *)
(***************************************************************************)
cleanup_keeps_queue(c) ==
    [_close_connection(c) EXCEPT !.session_token = "", !.message_counter = 0]

\* cleanup(), lines 248-252
cleanup(c) ==
    [_close_connection(c) EXCEPT !.session_token = "", !.message_counter = 0,
                                 !.message_queue = <<>>]

Disconnect ==
    /\ client' = _close_connection(client)
    /\ wire' = Hangup(client, wire)
    /\ hist' = [hist EXCEPT !.lastOp = Closing("disconnect")]

Cleanup ==
    /\ client' = cleanup(client)
    /\ wire' = Hangup(client, wire)
    /\ hist' = [hist EXCEPT
                  !.lastOp = Closing("cleanup"),
                  !.fate = [m \in 1..MaxMsgs |->
                              IF \E i \in DOMAIN client.message_queue :
                                    client.message_queue[i].data = m
                              THEN "cleared" ELSE hist.fate[m]]]

(***************************************************************************)
(* The client's network                                                    *)
(***************************************************************************)
\* every transport stops delivering; the peer stays or becomes (un)reachable
LinkLost(reach) ==
    /\ wire.alive # {} \/ wire.reachable # reach
    /\ wire' = [wire EXCEPT !.alive = {}, !.reachable = reach, !.stalled = TRUE]
    /\ UNCHANGED <<client, hist>>

(***************************************************************************)
(* NetworkHandler and ServiceBrowser: start and stop                       *)
(*                                                                         *)
(* server: _is_running, sweeps (the tasks of _cleanup_tasks still alive),  *)
(* listening (websockets.serve holds the port), advertised (service_info   *)
(* is registered with zeroconf), zeroconf ("open" or "closed"), closing    *)
(* (the addresses whose _close_connection task cleanup() has created and   *)
(* that has not run yet).                                                  *)
(* browser: _is_running, sweep (the _cleanup_task is alive), listener (is  *)
(* not None), browsing (the listener is added to zeroconf), zeroconf.      *)
(***************************************************************************)
SWEEP_TASKS == 2

\* NetworkHandler.__init__, which registers the service (line 43)
NewHandler == [_is_running |-> FALSE, sweeps |-> 0, listening |-> FALSE,
               advertised |-> TRUE, zeroconf |-> "open", closing |-> {}]

\* a handler whose start() is serving
Serving == [NewHandler EXCEPT !._is_running = TRUE, !.sweeps = SWEEP_TASKS,
                              !.listening = TRUE]

NewBrowser == [_is_running |-> FALSE, sweep |-> FALSE, listener |-> FALSE,
               browsing |-> FALSE, zeroconf |-> "open"]

NoCall == [who |-> "", op |-> "", wasRunning |-> FALSE, raised |-> FALSE, flip |-> FALSE]

Call(who, op, wasRunning, raised) ==
    [who |-> who, op |-> op, wasRunning |-> wasRunning, raised |-> raised,
     flip |-> ~lastCall.flip]

\* NetworkHandler.start with _start_cleanup_tasks and start_server: the port
\* is bound (and start() then waits forever) or websockets.serve raises
start(h, bound) ==
    IF h._is_running THEN h
    ELSE [h EXCEPT !._is_running = TRUE, !.sweeps = SWEEP_TASKS,
                   !.listening = @ \/ bound]

\* NetworkHandler.stop with cleanup(): the sweeps are cancelled, the service
\* is unregistered, zeroconf is closed and one _close_connection task is
\* created per registered address; the server of start_server is not touched
stop_unguarded(h, addresses) ==
    [h EXCEPT !._is_running = FALSE, !.sweeps = 0, !.advertised = FALSE,
              !.zeroconf = "closed", !.closing = @ \cup addresses]

stop(h, addresses) ==
    IF ~h._is_running THEN h
    ELSE [h EXCEPT !._is_running = FALSE, !.sweeps = 0, !.advertised = FALSE,
                   !.zeroconf = "closed", !.closing = @ \cup addresses]

\* a second websockets.serve on the port the first still holds cannot bind
Bound(h, portFree) == portFree /\ ~h.listening

HandlerStart(portFree) ==
    /\ server' = start(server, Bound(server, portFree))
    /\ lastCall' = Call("handler", "start", server._is_running,
                        ~server._is_running /\ ~Bound(server, portFree))
    /\ UNCHANGED browser

\* line 119 awaits the None that cleanup() returns: stop() ends with TypeError
HandlerStop ==
    /\ server' = stop(server, DOMAIN connections)
    /\ lastCall' = Call("handler", "stop", server._is_running, server._is_running)
    /\ UNCHANGED browser

\* a task created at line 334: _close_connection(address), lines 226-239
CleanupClose(address) ==
    /\ address \in server.closing
    /\ server' = [server EXCEPT !.closing = @ \ {address}]
    /\ IF address \in DOMAIN connections
       THEN LET target == connections[address] IN
            /\ task' = [task EXCEPT ![target] = CloseSock(task[target], CODE_NORMAL)]
            /\ connections' = Del(connections, address)
       ELSE UNCHANGED <<task, connections>>
    /\ peer_keys' = Del(peer_keys, address)
    /\ connection_states' = Del(connection_states, address)
    /\ UNCHANGED <<scenario, now, lastEv, guardData, delivered, browser, lastCall>>

\* ServiceBrowser.start with _start_cleanup_task and start_browser: the
\* listener object is made, then add_service_listener succeeds or raises
browser_start(b, added) ==
    IF b._is_running THEN b
    ELSE [b EXCEPT !._is_running = TRUE, !.sweep = TRUE, !.listener = TRUE,
                   !.browsing = @ \/ added]

\* ServiceBrowser.stop with cleanup()
browser_stop(b) ==
    IF ~b._is_running THEN b
    ELSE [b EXCEPT !._is_running = FALSE, !.sweep = FALSE, !.browsing = FALSE,
                   !.zeroconf = "closed"]

BrowserStart(added) ==
    /\ browser' = browser_start(browser, added)
    /\ lastCall' = Call("browser", "start", browser._is_running,
                        ~browser._is_running /\ ~added)
    /\ UNCHANGED server

BrowserStop ==
    /\ browser' = browser_stop(browser)
    /\ lastCall' = Call("browser", "stop", browser._is_running, FALSE)
    /\ UNCHANGED server

(***************************************************************************)
(* ServiceBrowser and NetworkServiceListener: the discovery table          *)
(*                                                                         *)
(* discovery: services (listener.services: name -> properties), last_seen  *)
(* (listener.last_seen: name -> time), handlers (_discovery_handlers, a    *)
(* list of handler ids), calls (history: the handler calls of the last     *)
(* listener event, in the order made) and last (history: the last listener *)
(* event, whether its name resolved, and the names it took out).           *)
(* A service info is what get_service_info returns for a service this      *)
(* program advertises (_setup_service_discovery): one IPv4 address, a port *)
(* and text properties; NoInfo is the None of an unresolvable name.        *)
(***************************************************************************)
stale_threshold == 300

NoInfo == [address |-> None, port |-> None, public_key |-> ""]
ServiceInfo(address, key) == [address |-> address, port |-> 8765, public_key |-> key]

NoDiscEvent == [op |-> "none", name |-> "", resolved |-> FALSE, evicted |-> {},
                flip |-> FALSE]
DiscEvent(op, name, resolved, evicted) ==
    [op |-> op, name |-> name, resolved |-> resolved, evicted |-> evicted,
     flip |-> ~discovery.last.flip]

\* NetworkServiceListener.__init__ and ServiceBrowser.__init__
NewDiscovery == [services |-> EmptyDict, last_seen |-> EmptyDict, handlers |-> <<>>,
                 calls |-> <<>>, last |-> NoDiscEvent]

\* a browser whose start() has added the listener
Browsing == browser_start(NewBrowser, TRUE)

\* ServiceBrowser.add_discovery_handler
add_discovery_handler(handlers, handler) == Append(handlers, handler)

AddHandler(handler) ==
    discovery' = [discovery EXCEPT
                    !.handlers = add_discovery_handler(@, handler)]

\* lines 37-42: the ServiceDiscoveredEvent of a service
DiscoveredEvent(name, info) ==
    [kind |-> "discovered", name |-> name, address |-> info.address, port |-> info.port]

\* one call of a handler: which one, with what, and whether it raised
HandlerCall(handler, event, raised) ==
    [handler |-> handler, event |-> event, raised |-> raised]

\* ServiceBrowser._notify_discovery from position i on: raising is the set
\* of positions whose handler raises
RECURSIVE _notify_stops_at_raise(_, _, _, _)
_notify_stops_at_raise(handlers, event, raising, i) ==
    IF i > Len(handlers) THEN <<>>
    ELSE IF i \in raising THEN <<HandlerCall(handlers[i], event, TRUE)>>
    ELSE <<HandlerCall(handlers[i], event, FALSE)>>
            \o _notify_stops_at_raise(handlers, event, raising, i + 1)

RECURSIVE _notify_discovery(_, _, _, _)
_notify_discovery(handlers, event, raising, i) ==
    IF i > Len(handlers) THEN <<>>
    ELSE <<HandlerCall(handlers[i], event, i \in raising)>>
            \o _notify_discovery(handlers, event, raising, i + 1)

\* lines 26-32: the properties dict stored for a service
Properties(name, info) ==
    [address |-> info.address, port |-> info.port, name |-> name,
     public_key |-> info.public_key, last_updated |-> now]

\* NetworkServiceListener.add_service (op "add") and update_service, which
\* calls it (op "update")
add_service(op, name, info, raising) ==
    /\ browser.browsing
    /\ IF info = NoInfo
       THEN discovery' = [discovery EXCEPT
                            !.calls = <<>>,
                            !.last = DiscEvent(op, name, FALSE, {})]
       ELSE discovery' = [discovery EXCEPT
                            !.services = Put(@, name, Properties(name, info)),
                            !.last_seen = Put(@, name, now),
                            !.calls = _notify_discovery(discovery.handlers,
                                         DiscoveredEvent(name, info), raising, 1),
                            !.last = DiscEvent(op, name, TRUE, {})]

\* NetworkServiceListener.remove_service
remove_service(name) ==
    /\ browser.browsing
    /\ IF name \in DOMAIN discovery.services
       THEN discovery' = [discovery EXCEPT
                            !.services = Del(@, name),
                            !.last_seen = Del(@, name),
                            !.calls = <<>>,
                            !.last = DiscEvent("remove", name, FALSE, {name})]
       ELSE discovery' = [discovery EXCEPT
                            !.calls = <<>>,
                            !.last = DiscEvent("remove", name, FALSE, {})]

\* line 69: (now - last_seen) > self.stale_threshold
StaleOrAtThreshold(seen) == now - seen >= stale_threshold
Stale(seen) == now - seen > stale_threshold

\* lines 67-70
stale_services == {name \in DOMAIN discovery.last_seen : Stale(discovery.last_seen[name])}

Without(f, keys) == [x \in (DOMAIN f) \ keys |-> f[x]]

\* one cycle of ServiceBrowser._cleanup_stale_services:
\* NetworkServiceListener.cleanup_stale_services
cleanup_stale_services ==
    /\ browser._is_running
    /\ browser.listener
    /\ discovery' = [discovery EXCEPT
                       !.services = Without(@, stale_services),
                       !.last_seen = Without(@, stale_services),
                       !.calls = <<>>,
                       !.last = DiscEvent("sweep", "", FALSE,
                                   stale_services \cap DOMAIN discovery.services)]

\* ServiceBrowser.get_available_services
get_available_services ==
    IF browser.listener
    THEN {discovery.services[name] : name \in DOMAIN discovery.services}
    ELSE {}

(***************************************************************************)
(* NetworkConnectionStatus: the status and its bounded history             *)
(*                                                                         *)
(* status: status_type, connected_service, last_discovered_service,        *)
(* service_history (a dict in insertion order: a sequence of entries, each *)
(* with its key), and the history fields events (updates made), seen       *)
(* (services met) and last (the last update: the key it recorded under, or *)
(* NoKey when it recorded nothing).                                        *)
(* A history key is the address of a service (connection events) or        *)
(* address:port (discovery events).  A timestamp is                        *)
(* datetime.now().isoformat(), a string whose order is the order of time:  *)
(* it is the time in seconds.                                              *)
(***************************************************************************)
MAX_HISTORY_SIZE == 50

NoKey == [address |-> None, port |-> None]
\* event.service_info['address']
AddressKey(info) == [address |-> info.address, port |-> None]
\* f"{event.address}:{event.port}"
AddressPortKey(event) == [address |-> event.address, port |-> event.port]

NoUpdate == [key |-> NoKey, flip |-> FALSE]
Updated(key) == [key |-> key, flip |-> ~status.last.flip]

\* NetworkConnectionStatus() with __post_init__
NewStatus == [status_type |-> "disconnected", connected_service |-> NoInfo,
              last_discovered_service |-> NoInfo, service_history |-> <<>>,
              events |-> 0, seen |-> 0, last |-> NoUpdate]

\* lines 72-77
HistoryEntry(key, status_type, info, at) ==
    [key |-> key, status_type |-> status_type, timestamp |-> at, service_info |-> info]

Keys_of(history) == {history[i].key : i \in 1..Len(history)}
IndexOfKey(history, key) == CHOOSE i \in 1..Len(history) : history[i].key = key

\* line 66
oldest_timestamp(history) ==
    CHOOSE ts \in {history[i].timestamp : i \in 1..Len(history)} :
       \A i \in 1..Len(history) : ts <= history[i].timestamp

\* lines 67-70: the first entry, in dict order, with the oldest timestamp
OldestIndex(history) ==
    CHOOSE i \in 1..Len(history) :
       /\ history[i].timestamp = oldest_timestamp(history)
       /\ \A j \in 1..(i - 1) : history[j].timestamp # oldest_timestamp(history)

RemoveAt(seq, i) == SubSeq(seq, 1, i - 1) \o SubSeq(seq, i + 1, Len(seq))

MustEvictAlways(history, key) == Len(history) >= MAX_HISTORY_SIZE
\* line 64
MustEvict(history, key) ==
    Len(history) >= MAX_HISTORY_SIZE /\ key \notin Keys_of(history)

\* NetworkConnectionStatus._update_service_history; assigning to a key the
\* dict holds keeps the key's place
_update_service_history(history, key, entry) ==
    LET kept == IF MustEvict(history, key) THEN RemoveAt(history, OldestIndex(history))
                ELSE history
    IN  IF key \in Keys_of(kept)
        THEN [kept EXCEPT ![IndexOfKey(kept, key)] = entry]
        ELSE Append(kept, entry)

\* NetworkConnectionStatus.update_from_event at time at; a connected event
\* without service_info raises at line 33
update_from_event(status_type, info, at) ==
    IF info = NoInfo
    THEN status' = [status EXCEPT !.status_type = status_type,
                                  !.connected_service = NoInfo,
                                  !.events = @ + 1,
                                  !.last = Updated(NoKey)]
    ELSE status' = [status EXCEPT
                      !.status_type = status_type,
                      !.connected_service =
                         IF status_type = "connected" THEN info ELSE NoInfo,
                      !.service_history =
                         _update_service_history(@, AddressKey(info),
                            HistoryEntry(AddressKey(info), status_type, info, at)),
                      !.events = @ + 1,
                      !.seen = Largest(@, info.address),
                      !.last = Updated(AddressKey(info))]

\* NetworkConnectionStatus.update_from_service_discovery at time at
update_from_service_discovery(event, at) ==
    LET service_info == [address |-> event.address, port |-> event.port,
                         public_key |-> ""]
    IN  status' = [status EXCEPT
                      !.status_type = "discovered",
                      !.last_discovered_service = service_info,
                      !.service_history =
                         _update_service_history(@, AddressPortKey(event),
                            HistoryEntry(AddressPortKey(event), "discovered",
                                         service_info, at)),
                      !.events = @ + 1,
                      !.seen = Largest(@, event.address),
                      !.last = Updated(AddressPortKey(event))]

(***************************************************************************)
(* NetworkClient: receive_bookmarks                                        *)
(*                                                                         *)
(* An inbound frame is what websocket.recv() returns: env is the JSON form *)
(* of the envelope ("obj", "nonobj", "badjson", or "timeout" when recv     *)
(* times out), data whether it has a 'data' field, sig its 'signature'     *)
(* field (present or not, the token it was made with, and whether it was   *)
(* made over the very text that 'data' decrypts to), key the key the       *)
(* ciphertext was boxed with, cipher "ok" or "tampered", plain the         *)
(* decrypted text as in Plain.                                             *)
(* received: the frame of the last call, its result ("returned" or         *)
(* "raised"), the records returned and the records emitted.                *)
(***************************************************************************)
NoSig == [present |-> FALSE, signer |-> "", intact |-> FALSE]
Sig(signer, intact) == [present |-> TRUE, signer |-> signer, intact |-> intact]

InFrame(env, data, sig, key, cipher, plain) ==
    [env |-> env, data |-> data, sig |-> sig, key |-> key, cipher |-> cipher,
     plain |-> plain]

RecvTimeout == InFrame("timeout", FALSE, NoSig, "", "none", NoPlain)

NoReceive == [frame |-> RecvTimeout, result |-> "none", records |-> <<>>,
              emitted |-> <<>>, flip |-> FALSE]
Receipt(frame, result, records, emitted) ==
    [frame |-> frame, result |-> result, records |-> records, emitted |-> emitted,
     flip |-> ~received.flip]

\* NetworkClient._decrypt_message: Box(private_key, peer_key) opens what the
\* peer boxed
CanOpen(c, m) == c.peer_key # "" /\ m.cipher = "ok" /\ m.key = c.peer_key

_verify_signature_unkeyed(c, m) == m.sig.present /\ m.sig.intact
\* NetworkClient._verify_signature: an HMAC under self.session_token over the
\* decrypted text; session_token None raises
_verify_signature(c, m) ==
    /\ c.session_token # ""
    /\ m.sig.present
    /\ m.sig.intact
    /\ m.sig.signer = c.session_token

\* line 202: no attribute bookmarks_received is ever set on a NetworkClient
has_bookmarks_received == FALSE

Raised(m) == Receipt(m, "raised", <<>>, <<>>)

\* NetworkClient.receive_bookmarks, given what recv() returns
receive_bookmarks(c, m) ==
    IF ~c.connected THEN Raised(m)
    ELSE IF m.env # "obj" THEN Raised(m)
    ELSE IF ~m.data \/ ~m.sig.present THEN Raised(m)
    ELSE IF ~CanOpen(c, m) THEN Raised(m)
    ELSE IF ~_verify_signature(c, m) THEN Raised(m)
    ELSE IF m.plain.form # "obj" THEN Raised(m)
    ELSE IF m.plain.token # c.session_token THEN Raised(m)
    ELSE IF m.plain.type # "bookmarks" THEN Raised(m)
    ELSE IF ~m.plain.hasData THEN Raised(m)
    ELSE Receipt(m, "returned", m.plain.recs,
                 IF has_bookmarks_received THEN m.plain.recs ELSE <<>>)

ReceiveBookmarks(m) ==
    /\ received' = receive_bookmarks(client, m)
    /\ UNCHANGED <<client, wire, hist>>

(***************************************************************************)
(* _encrypt_message and _decrypt_message (NetworkClient and NetworkHandler *)
(* have the same two bodies)                                               *)
(*                                                                         *)
(* A str is its sequence of code points, bytes a sequence of 0..255.       *)
(* str.encode() and bytes.decode() are UTF-8, strict, over one- and        *)
(* two-byte sequences.  Box.encrypt returns nonce, MAC and body as one     *)
(* bytes value; the nonce is random, so the value is any sequence of       *)
(* bytes, and Box.decrypt with the same shared key gives the plaintext     *)
(* back for exactly these bytes and raises for any other.                  *)
(***************************************************************************)
MaxCipherLen == 3

RaisedError == <<-1>>

IsLead(b) == b >= 194 /\ b <= 223
IsContinuation(b) == b >= 128 /\ b <= 191

RECURSIVE Utf8Valid(_)
Utf8Valid(bytes) ==
    IF bytes = <<>> THEN TRUE
    ELSE IF Head(bytes) < 128 THEN Utf8Valid(Tail(bytes))
    ELSE IF IsLead(Head(bytes)) /\ Len(bytes) >= 2 /\ IsContinuation(bytes[2])
         THEN Utf8Valid(Tail(Tail(bytes)))
    ELSE FALSE

\* bytes.decode() of valid UTF-8
RECURSIVE Utf8Decode(_)
Utf8Decode(bytes) ==
    IF bytes = <<>> THEN <<>>
    ELSE IF Head(bytes) < 128 THEN <<Head(bytes)>> \o Utf8Decode(Tail(bytes))
    ELSE <<(Head(bytes) - 192) * 64 + (bytes[2] - 128)>>
         \o Utf8Decode(Tail(Tail(bytes)))

\* str.encode()
RECURSIVE Utf8Encode(_)
Utf8Encode(text) ==
    IF text = <<>> THEN <<>>
    ELSE (IF Head(text) < 128 THEN <<Head(text)>>
          ELSE <<192 + (Head(text) \div 64), 128 + (Head(text) % 64)>>)
         \o Utf8Encode(Tail(text))

\* the shared key of Box(private of a, public of b)
Shared(a, b) == {a, b}

\* Box(...).encrypt(message.encode()): the bytes the nonce of this call gives
BoxEncrypt(sealed) == sealed.bytes

\* Box(...).decrypt(bytes)
BoxDecrypt(sealed, shared, bytes) ==
    IF shared = sealed.shared /\ bytes = sealed.bytes THEN sealed.plain
    ELSE RaisedError

\* _encrypt_message: encrypted.decode()
_encrypt_message(sealed) ==
    LET encrypted == BoxEncrypt(sealed)
    IN  IF Utf8Valid(encrypted) THEN Utf8Decode(encrypted) ELSE RaisedError

\* _decrypt_message: box.decrypt(encrypted_message.encode()).decode()
_decrypt_message(sealed, shared, encrypted_message) ==
    LET decrypted == BoxDecrypt(sealed, shared, Utf8Encode(encrypted_message))
    IN  IF decrypted = RaisedError \/ ~Utf8Valid(decrypted) THEN RaisedError
        ELSE Utf8Decode(decrypted)

NoChannel == [stage |-> "none", message |-> <<>>, a |-> "", b |-> "",
              sealed |-> [bytes |-> <<>>, plain |-> <<>>, shared |-> {}],
              sent |-> <<>>, got |-> <<>>]

EncryptStep ==
    /\ channel.stage = "input"
    /\ channel' = [channel EXCEPT !.stage = "encrypted",
                                  !.sent = _encrypt_message(channel.sealed)]

DecryptStep ==
    /\ channel.stage = "encrypted"
    /\ channel.sent # RaisedError
    /\ channel' = [channel EXCEPT
           !.stage = "decrypted",
           !.got = _decrypt_message(channel.sealed, Shared(channel.b, channel.a),
                                    channel.sent)]

\* the messages, key pairs and ciphertext bytes a round trip is tried on
CipherBytes == {65, 195, 169, 255}
RECURSIVE BytesUpTo(_)
BytesUpTo(n) ==
    IF n = 0 THEN {<<>>}
    ELSE BytesUpTo(n - 1)
         \cup {Append(q, b) : q \in {r \in BytesUpTo(n - 1) : Len(r) = n - 1},
                              b \in CipherBytes}
ChannelInputs ==
    {[NoChannel EXCEPT !.stage = "input", !.message = m, !.a = a, !.b = b,
                       !.sealed = [bytes |-> c, plain |-> Utf8Encode(m),
                                   shared |-> Shared(a, b)]] :
        m \in {<<104, 105>>, <<233>>}, a \in {"A1", "A2"}, b \in {"B1", "B2"},
        c \in BytesUpTo(MaxCipherLen) \ {<<>>}}

(***************************************************************************)
(* PeerServer: _cleanup_stale_connections, one cycle of the loop           *)
(*                                                                         *)
(* sweep.keys is the order of self.connections (a dict keeps its keys in   *)
(* the order they were first assigned).  A cycle runs without interruption *)
(* from one await to the next: pc is "sleep" (asyncio.sleep between        *)
(* cycles) or "closewait" (inside await self.connections[cur].close()),    *)
(* todo the rest of list(self.connections.keys()), at the cycle's now.     *)
(* History: stale, the handler tasks whose registered connections were     *)
(* stale when the cycle began; error, whether the cycle ended in the       *)
(* except clause; ended flips when a cycle ends.                           *)
(***************************************************************************)
connection_stale_threshold == 300

NewSweep == [pc |-> "sleep", keys |-> <<>>, todo |-> <<>>, at |-> None, cur |-> 0,
             stale |-> {}, error |-> FALSE, ended |-> FALSE]

SeqRange(q) == {q[i] : i \in 1..Len(q)}

\* the keys of self.connections, in dict order, after a step
KeyOrder(order, present) ==
    LET kept == SelectSeq(order, LAMBDA a : a \in present)
        new == present \ SeqRange(kept)
    IN  IF new = {} THEN kept ELSE Append(kept, CHOOSE a \in new : TRUE)

Tracked(sw) == [sw EXCEPT !.keys = KeyOrder(sw.keys, DOMAIN connections')]

\* lines 72-75: last_message and (now - last_message) > stale_threshold
IsStale(address, at, states) ==
    /\ address \in DOMAIN states
    /\ at - states[address].last_message > connection_stale_threshold

\* lines 71-77, from the head of todo to the next await: the for loop up to
\* the close() of the first stale address that is registered
RECURSIVE Scan(_, _, _, _, _)
Scan(todo, at, conns, keys, states) ==
    IF todo = <<>>
    THEN [pc |-> "sleep", todo |-> <<>>, cur |-> 0, keys |-> keys, states |-> states]
    ELSE LET address == Head(todo) IN
         IF ~IsStale(address, at, states)
         THEN Scan(Tail(todo), at, conns, keys, states)
         ELSE IF address \in DOMAIN conns
         THEN [pc |-> "closewait", todo |-> Tail(todo), cur |-> address,
               keys |-> keys, states |-> states]
         ELSE Scan(Tail(todo), at, conns, Del(keys, address), Del(states, address))

\* the socket that the close() of the cycle's await closes
SweepCloses(r, conns) ==
    IF r.pc = "closewait"
    THEN [task EXCEPT ![conns[r.cur]] = CloseSock(@, CODE_NORMAL)]
    ELSE task

\* lines 67-77: a cycle begins
SweepBegin ==
    /\ server._is_running
    /\ sweep.pc = "sleep"
    /\ LET r == Scan(sweep.keys, now, connections, peer_keys, connection_states) IN
       /\ task' = SweepCloses(r, connections)
       /\ peer_keys' = r.keys
       /\ connection_states' = r.states
       /\ sweep' = [sweep EXCEPT
             !.pc = r.pc, !.todo = r.todo, !.cur = r.cur, !.at = now,
             !.stale = {connections[a] :
                          a \in {x \in DOMAIN connections :
                                   IsStale(x, now, connection_states)}},
             !.error = FALSE,
             !.ended = IF r.pc = "sleep" THEN ~@ ELSE @]
    /\ UNCHANGED <<scenario, now, lastEv, connections, guardData, delivered>>

\* _close_connection lines 233-239 after the await, then the rest of the
\* for loop; a KeyError of del self.connections[address] ends the cycle in
\* the except clause of line 80
SweepResume ==
    /\ sweep.pc = "closewait"
    /\ IF sweep.cur \in DOMAIN connections
       THEN LET gone == Del(connections, sweep.cur)
                next == Scan(sweep.todo, sweep.at, gone, Del(peer_keys, sweep.cur),
                             Del(connection_states, sweep.cur))
            IN  /\ connections' = gone
                /\ task' = SweepCloses(next, gone)
                /\ peer_keys' = next.keys
                /\ connection_states' = next.states
                /\ sweep' = [sweep EXCEPT
                      !.pc = next.pc, !.todo = next.todo, !.cur = next.cur,
                      !.keys = KeyOrder(@, DOMAIN gone),
                      !.ended = IF next.pc = "sleep" THEN ~@ ELSE @]
       ELSE /\ sweep' = [sweep EXCEPT !.pc = "sleep", !.todo = <<>>, !.cur = 0,
                                      !.error = TRUE, !.ended = ~@]
            /\ UNCHANGED <<task, registries>>
    /\ UNCHANGED <<scenario, now, lastEv, guardData, delivered>>

(***************************************************************************)
(* PeerServer: _cleanup_security_data, one cycle of the loop (no await     *)
(* between its first and its last statement)                               *)
(*                                                                         *)
(* History: security.last, the time of the last connection attempt of each *)
(* address; error, whether the last cycle ended in the except clause; flip *)
(* changes with every cycle.                                               *)
(***************************************************************************)
attempt_max_age == 3600

NoSecurity == [last |-> EmptyDict, error |-> FALSE, flip |-> FALSE]

Attempted(address) == [security EXCEPT !.last = Put(@, address, now)]

\* line 91: now - self.connection_attempts[address]['last_attempt'] is a
\* TypeError when last_attempt is None
AgeRaises(attempts, address) == attempts[address].last_attempt = None

AttemptExpired(attempts, address, at) ==
    at - attempts[address].last_attempt > attempt_max_age

\* lines 90-92: the records left when the loop over list(keys()) has visited
\* the addresses of visited and deleted the expired ones
AttemptsKept(attempts, visited, at) ==
    [a \in {x \in DOMAIN attempts :
              ~(x \in visited /\ AttemptExpired(attempts, x, at))} |-> attempts[a]]

\* lines 95-97
SizesKept(sizes, conns) == [a \in (DOMAIN sizes) \cap (DOMAIN conns) |-> sizes[a]]

\* lines 86-102: one cycle; the addresses visited before the first one whose
\* age raises are those of visited
SecuritySweep ==
    /\ server._is_running
    /\ LET raising == {a \in DOMAIN connection_attempts :
                         AgeRaises(connection_attempts, a)}
       IN  IF raising = {}
           THEN /\ connection_attempts' =
                      AttemptsKept(connection_attempts, DOMAIN connection_attempts, now)
                /\ message_sizes' = SizesKept(message_sizes, connections)
                /\ security' = [security EXCEPT !.error = FALSE, !.flip = ~@]
           ELSE \E visited \in SUBSET ((DOMAIN connection_attempts) \ raising) :
                   /\ connection_attempts' =
                         AttemptsKept(connection_attempts, visited, now)
                   /\ message_sizes' = message_sizes
                   /\ security' = [security EXCEPT !.error = TRUE, !.flip = ~@]
    /\ UNCHANGED <<scenario, now, task, lastEv, registries, blacklist, attemptLog,
                   delivered>>

(***************************************************************************)
(* NetworkClient: the tasks connect() creates and the ids _send_message    *)
(* gives out                                                               *)
(*                                                                         *)
(* connect() creates a drain task and a ping task each time it succeeds    *)
(* (lines 62-63) and keeps no reference to them; nothing cancels them.     *)
(* client.drain and client.monitor are the newest of each; extra counts    *)
(* the older ones that are still alive (asleep between two passes).        *)
(* idlog: pending, the message_id line 107 gave the frame the drain task   *)
(* has in websocket.send; ids, the message_ids of the frames sent since    *)
(* the session began, in send order.                                       *)
(***************************************************************************)
NoExtra == [drains |-> 0, monitors |-> 0]
NoIds == [pending |-> None, ids |-> <<>>]

\* lines 62-63: the tasks alive when connect() creates the next pair
Spawned ==
    IF client'.connected /\ ~client.connected /\ client.connecting = "keywait"
    THEN [drains |-> extra.drains + (IF client.drain # "none" THEN 1 ELSE 0),
          monitors |-> extra.monitors
                       + (IF client.monitor \in {"sleep", "backoff"} THEN 1 ELSE 0)]
    ELSE extra

\* lines 72 and 167: an older task wakes, finds connected false and ends
ExtraDrainEnds ==
    /\ extra.drains > 0
    /\ ~client.connected
    /\ extra' = [extra EXCEPT !.drains = @ - 1]
    /\ UNCHANGED <<client, wire, hist, idlog>>

ExtraMonitorEnds ==
    /\ extra.monitors > 0
    /\ ~client.connected
    /\ extra' = [extra EXCEPT !.monitors = @ - 1]
    /\ UNCHANGED <<client, wire, hist, idlog>>

\* lines 107 and 127 of a send that does not wait: the id is the counter
SentNow ==
    IF client'.message_counter = client.message_counter + 1
    THEN [idlog EXCEPT !.ids = Append(@, client.message_counter)]
    ELSE idlog

\* line 107 in the drain task, before the await of line 119
SentLater ==
    IF client'.drain = "sending"
    THEN [idlog EXCEPT !.pending = client.message_counter]
    ELSE idlog

\* line 127 in the drain task, after the await
SentAtLast ==
    IF client'.message_counter = client.message_counter + 1
    THEN [pending |-> None, ids |-> Append(idlog.ids, idlog.pending)]
    ELSE [idlog EXCEPT !.pending = None]

(***************************************************************************)
(* NetworkHandler.stop and ServiceBrowser.stop, await by await             *)
(*                                                                         *)
(* halt.handler is where NetworkHandler.stop stands: "none" (not called),  *)
(* "gather" (the sweeps are cancelled, line 116 waits) or "done";          *)
(* halt.alive the sweep tasks of _cleanup_tasks that have not ended.       *)
(* halt.browser and halt.balive are the same for ServiceBrowser.stop       *)
(* ("await" is line 137) and its _cleanup_task.  A cancelled task gets     *)
(* CancelledError at the await it sleeps in, which no except clause of the *)
(* sweeps catches, and ends.                                               *)
(***************************************************************************)
STALE_SWEEP == "stale"
SECURITY_SWEEP == "security"

NewHalt == [handler |-> "none", alive |-> {STALE_SWEEP, SECURITY_SWEEP},
            browser |-> "none", balive |-> TRUE]

\* lines 106-116 up to the await
HaltBegin ==
    /\ server._is_running
    /\ halt.handler = "none"
    /\ server' = [server EXCEPT !._is_running = FALSE]
    /\ halt' = [halt EXCEPT !.handler = "gather"]

\* the stale-connection sweep ends on its CancelledError; inside
\* _close_connection the finally clause of line 233 still runs
StaleSweepCancelled ==
    /\ halt.handler = "gather"
    /\ STALE_SWEEP \in halt.alive
    /\ halt' = [halt EXCEPT !.alive = @ \ {STALE_SWEEP}]
    /\ server' = [server EXCEPT !.sweeps = @ - 1]
    /\ connections' = IF sweep.pc = "closewait" THEN Del(connections, sweep.cur)
                      ELSE connections
    /\ sweep' = [sweep EXCEPT !.pc = "sleep", !.todo = <<>>, !.cur = 0,
                              !.keys = KeyOrder(@, DOMAIN connections')]
    /\ UNCHANGED <<scenario, now, task, lastEv, peer_keys, connection_states,
                   guardData, delivered>>

SecuritySweepCancelled ==
    /\ halt.handler = "gather"
    /\ SECURITY_SWEEP \in halt.alive
    /\ halt' = [halt EXCEPT !.alive = @ \ {SECURITY_SWEEP}]
    /\ server' = [server EXCEPT !.sweeps = @ - 1]

\* line 116: await asyncio.gather(*self._cleanup_tasks, return_exceptions=True)
GatherReturnedAtOnce(alive) == TRUE
GatherReturned(alive) == alive = {}

\* NetworkHandler.cleanup, lines 323-336
handler_cleanup(h, addresses) ==
    [h EXCEPT !.advertised = FALSE, !.zeroconf = "closed", !.closing = @ \cup addresses]

\* lines 116-119: the gather returns, cleanup() runs, the await of its None
\* raises
HaltRelease ==
    /\ halt.handler = "gather"
    /\ GatherReturned(halt.alive)
    /\ server' = handler_cleanup(server, DOMAIN connections)
    /\ halt' = [halt EXCEPT !.handler = "done"]
    /\ lastCall' = Call("handler", "stop", TRUE, TRUE)

\* ServiceBrowser.stop, lines 128-137 up to the await
BrowserHaltBegin ==
    /\ browser._is_running
    /\ halt.browser = "none"
    /\ browser' = [browser EXCEPT !._is_running = FALSE]
    /\ halt' = [halt EXCEPT !.browser = "await"]

BrowserSweepCancelled ==
    /\ halt.browser = "await"
    /\ halt.balive
    /\ browser' = [browser EXCEPT !.sweep = FALSE]
    /\ halt' = [halt EXCEPT !.balive = FALSE]

\* line 137: await self._cleanup_task
AwaitReturned(alive) == ~alive

\* ServiceBrowser.cleanup, lines 154-162
browser_cleanup(b) == [b EXCEPT !.browsing = FALSE, !.zeroconf = "closed"]

\* lines 137-142
BrowserHaltRelease ==
    /\ halt.browser = "await"
    /\ AwaitReturned(halt.balive)
    /\ browser' = browser_cleanup(browser)
    /\ halt' = [halt EXCEPT !.browser = "done"]
    /\ lastCall' = Call("browser", "stop", TRUE, FALSE)

(***************************************************************************)
(* Initial state: the objects as their constructors leave them             *)
(***************************************************************************)
Scenarios == {"guard", "cap", "rate", "size", "proto", "client", "queue", "shake",
              "life", "disc", "window", "status", "recv", "box", "sweep",
              "secure", "tasks", "halt", "bhalt",
              "order"}

Init ==
    /\ scenario \in Scenarios
    /\ now = 0
    /\ task = [t \in AllTasks |-> IdleTask]
    /\ lastEv = NoEvent
    /\ connections = EmptyDict
    /\ peer_keys = EmptyDict
    /\ connection_states = EmptyDict
    /\ message_sizes = EmptyDict
    /\ connection_attempts = EmptyDict
    /\ blacklist = EmptyDict
    /\ attemptLog = EmptyDict
    /\ delivered = <<>>
    /\ client = NewClient
    /\ wire = NoWire
    /\ hist = NoHist
    /\ server = IF scenario = "life" THEN NewHandler ELSE Serving
    /\ browser = IF scenario \in {"disc", "bhalt"} THEN Browsing ELSE NewBrowser
    /\ lastCall = NoCall
    /\ discovery = NewDiscovery
    /\ status = NewStatus
    /\ received = NoReceive
    /\ channel \in IF scenario = "box" THEN ChannelInputs ELSE {NoChannel}
    /\ sweep = NewSweep
    /\ security = NoSecurity
    /\ extra = NoExtra
    /\ idlog = NoIds
    /\ halt = NewHalt

(***************************************************************************)
(* Admission control under repeated attempts from one address              *)
(***************************************************************************)
NextGuard ==
    \/ /\ \E t \in 1..NGuardTasks, a \in GuardAddrs : Accept(t, a)
       /\ UNCHANGED clientLife
    \/ \E t \in 1..NGuardTasks : PeerClose(t) /\ UNCHANGED clientLife
    \/ \E i \in GuardInstants : Tick(i) /\ UNCHANGED clientLife

InitGuard == Init /\ scenario = "guard"

SpecGuard == InitGuard /\ [][NextGuard]_vars

(***************************************************************************)
(* Concurrent handshakes of connections from distinct addresses            *)
(***************************************************************************)
NextCap ==
    \/ \E t \in 1..NCapTasks : Accept(t, t) /\ UNCHANGED clientLife
    \/ \E t \in 1..NCapTasks, k \in {"k1"}, tok \in {"t1"} :
          Handshake(t, RawKeyMsg(k), tok) /\ UNCHANGED clientLife

InitCap == Init /\ scenario = "cap"

SpecCap == InitCap /\ [][NextCap]_vars

(***************************************************************************)
(* One connection that sends many frames                                   *)
(***************************************************************************)
RateFrames == {ClientBookmarks(<<1>>, "t1", "k1", 1000)}

NextRate ==
    \/ Accept(1, 1) /\ UNCHANGED clientLife
    \/ Handshake(1, RawKeyMsg("k1"), "t1") /\ UNCHANGED clientLife
    \/ \E m \in RateFrames, garbled \in BOOLEAN :
          task[1].nrecv < MaxRateMsgs /\ Receive(1, m, ~garbled)
          /\ UNCHANGED clientLife
    \/ PeerClose(1) /\ UNCHANGED clientLife
    \/ CloseBegin(1) /\ UNCHANGED clientLife
    \/ CloseFinish(1) /\ UNCHANGED clientLife
    \/ \E i \in RateInstants : Tick(i) /\ UNCHANGED clientLife

InitRate == Init /\ scenario = "rate"

SpecRate == InitRate /\ [][NextRate]_vars

(***************************************************************************)
(* One connection that sends frames of different sizes                     *)
(***************************************************************************)
SizeFrames == {ClientBookmarks(<<1>>, "t1", "k1", sz) : sz \in {1000, 3500, 3857, 3858}}

\* the frames seen so far that were not of the usual 1000 bytes
BigFramesSeen == Cardinality({i \in DOMAIN SizesOf(1) : SizesOf(1)[i] # 1000})

NextSize ==
    \/ Accept(1, 1) /\ UNCHANGED clientLife
    \/ Handshake(1, RawKeyMsg("k1"), "t1") /\ UNCHANGED clientLife
    \/ \E m \in SizeFrames, garbled \in BOOLEAN :
          /\ task[1].nrecv < MaxSizeMsgs
          /\ m.size = 1000 \/ BigFramesSeen < MaxBigFrames
          /\ Receive(1, m, ~garbled) /\ UNCHANGED clientLife
    \/ CloseBegin(1) /\ UNCHANGED clientLife
    \/ CloseFinish(1) /\ UNCHANGED clientLife

InitSize == Init /\ scenario = "size"

SpecSize == InitSize /\ [][NextSize]_vars

(***************************************************************************)
(* Two connections, possibly from one address, and frames of every shape   *)
(***************************************************************************)
ProtoTasks == {1, 2}
ProtoAddrs(t) == 1..t
ProtoKeyMsgs == {KeyTimeout} \cup {ClientKeyMsg(k) : k \in Keys}
                    \cup {RawKeyMsg(k) : k \in Keys}

ProtoFrames(key) ==
    LET size == 200
        records == <<1, 2, 3>>
        good == ClientBookmarks(records, "t1", key, size)
        payloads == {Plain("obj", "hello", TRUE, "t1", <<>>),
                     Plain("obj", "ping", TRUE, "t1", <<>>),
                     Plain("obj", "absent", TRUE, "t1", <<>>),
                     Plain("badjson", "", FALSE, "", <<>>),
                     Plain("nonobj", "", FALSE, "", <<>>)}
    IN  {ClientPing("t1", key, size), good}
        \cup {ClientFrame(p, key, size) : p \in payloads}
        \cup {[good EXCEPT !.sig = "bad"], [good EXCEPT !.sig = "none"],
              [good EXCEPT !.data = FALSE], [good EXCEPT !.cipher = "tampered"],
              [good EXCEPT !.env = "badjson"], [good EXCEPT !.env = "nonobj"]}

ProtoReceived == task[1].nrecv + task[2].nrecv

NextProto ==
    \/ /\ \E t \in ProtoTasks : \E a \in ProtoAddrs(t) : Accept(t, a)
       /\ UNCHANGED clientLife
    \/ /\ \E t \in ProtoTasks, km \in ProtoKeyMsgs, tok \in Tokens : Handshake(t, km, tok)
       /\ UNCHANGED clientLife
    \/ \E t \in ProtoTasks, garbled \in BOOLEAN :
          \E m \in ProtoFrames(task[t].key) :
             ProtoReceived < MaxProtoMsgs /\ Receive(t, m, ~garbled)
             /\ UNCHANGED clientLife
    \/ \E t \in ProtoTasks : PeerClose(t) /\ UNCHANGED clientLife
    \/ \E t \in ProtoTasks : LoopEnd(t) /\ UNCHANGED clientLife
    \/ \E t \in ProtoTasks : CloseBegin(t) /\ UNCHANGED clientLife
    \/ \E t \in ProtoTasks : CloseFinish(t) /\ UNCHANGED clientLife

InitProto == Init /\ scenario = "proto"

SpecProto == InitProto /\ [][NextProto]_vars

(***************************************************************************)
(* The client against a peer that answers the key exchange in any way and  *)
(* a link that may be lost; nothing is sent but the pings                  *)
(***************************************************************************)
handlerVars == <<scenario, now, task, lastEv, registries, guardData, delivered>>
serverLife == <<handlerVars, lifeVars, deskVars>>

\* the tasks of an earlier connection have ended
TasksGone == client.drain = "none" /\ client.monitor = "none"

ClientReplies == {KeyTimeout, KeyClosed, RawKeyMsg(ServerKey), ServerKeyMsg(ServerKey)}

NextClient ==
    \/ /\ client.connected \/ (TasksGone /\ wire.sockets < MaxDials)
       /\ ConnectCall /\ UNCHANGED serverLife
    \/ Dial /\ UNCHANGED serverLife
    \/ \E reply \in ClientReplies : KeyReply(reply) /\ UNCHANGED serverLife
    \/ \E garbled \in BOOLEAN : DrainTick(~garbled) /\ UNCHANGED serverLife
    \/ \E garbled \in BOOLEAN :
          /\ SendOk(client, ~garbled) => client.message_counter < MaxPings
          /\ MonitorTick(~garbled) /\ UNCHANGED serverLife
    \/ Reconnect /\ UNCHANGED serverLife
    \/ Disconnect /\ UNCHANGED serverLife
    \/ Cleanup /\ UNCHANGED serverLife
    \/ \E reach \in BOOLEAN : LinkLost(reach) /\ UNCHANGED serverLife

InitClient == Init /\ scenario = "client"

SpecClient == InitClient /\ [][NextClient]_vars

(***************************************************************************)
(* The client with bookmarks to send: send_bookmarks, the drain task,      *)
(* disconnect and cleanup.  The ping task stays in its sleep and wakes     *)
(* only to find the client disconnected.                                   *)
(***************************************************************************)
NextQueue ==
    \/ /\ client.connected \/ (TasksGone /\ wire.sockets < MaxDials)
       /\ ConnectCall /\ UNCHANGED serverLife
    \/ Dial /\ UNCHANGED serverLife
    \/ \E reply \in ClientReplies : KeyReply(reply) /\ UNCHANGED serverLife
    \/ \E recs \in 1..MaxMsgs, garbled \in BOOLEAN :
          hist.fate[recs] = "new" /\ send_bookmarks(recs, ~garbled)
          /\ UNCHANGED serverLife
    \/ \E garbled \in BOOLEAN : DrainTick(~garbled) /\ UNCHANGED serverLife
    \/ DrainDone /\ UNCHANGED serverLife
    \/ ~client.connected /\ MonitorTick(TRUE) /\ UNCHANGED serverLife
    \/ Disconnect /\ UNCHANGED serverLife
    \/ Cleanup /\ UNCHANGED serverLife
    \/ LinkLost(TRUE) /\ UNCHANGED serverLife

InitQueue == Init /\ scenario = "queue"

SpecQueue == InitQueue /\ [][NextQueue]_vars

(***************************************************************************)
(* The client and the server of this repository, joined by a transport:    *)
(* dial n of the client is websocket n of the server, from address 1       *)
(***************************************************************************)
ShakeInstants == {0, 5, 10}

\* what the server's recv() of line 179 gives for websocket t
ServerHears(t) ==
    IF t \in wire.alive /\ wire.c2s.kind = "key" THEN wire.c2s ELSE KeyTimeout

\* what the client's recv() of line 50 gives
ClientHears ==
    IF client.websocket \in wire.alive /\ wire.s2c.kind = "key" THEN wire.s2c
    ELSE IF client.websocket # None /\ ~task[client.websocket].open THEN KeyClosed
    ELSE KeyTimeout

NextShake ==
    \/ /\ wire.sockets < MaxShakes
       /\ TasksGone
       /\ wire.sockets > 0 => task[wire.sockets].pc = "done"
       /\ ConnectCall
       /\ UNCHANGED <<handlerVars, lifeVars, deskVars>>
    \/ /\ Dial
       /\ Accept(wire.sockets + 1, 1)
       /\ UNCHANGED <<lifeVars, deskVars>>
    \/ \E t \in 1..MaxShakes :
          /\ t = wire.sockets
          /\ t \in wire.open
          /\ ServerHears(t).kind = "timeout" => now - wire.dialAt >= SERVER_KEY_TIMEOUT
          /\ Handshake(t, ServerHears(t), "t1")
          /\ wire' = IF KeyAccepted(ServerHears(t))
                     THEN [wire EXCEPT !.s2c = ServerKeyMsg(ServerKey)] ELSE wire
          /\ UNCHANGED <<client, hist, lifeVars, deskVars>>
    \/ /\ ClientHears.kind = "timeout" => now - wire.dialAt >= CLIENT_KEY_TIMEOUT
       /\ KeyReply(ClientHears)
       /\ UNCHANGED <<handlerVars, lifeVars, deskVars>>
    \/ \E t \in 1..MaxShakes :
          t \notin wire.open /\ PeerClose(t) /\ UNCHANGED <<clientVars, lifeVars, deskVars>>
    \/ \E t \in 1..MaxShakes : CloseBegin(t) /\ UNCHANGED <<clientVars, lifeVars, deskVars>>
    \/ Disconnect /\ UNCHANGED <<handlerVars, lifeVars, deskVars>>
    \/ LinkLost(TRUE) /\ UNCHANGED <<handlerVars, lifeVars, deskVars>>
    \/ \E i \in ShakeInstants : Tick(i) /\ UNCHANGED <<clientVars, lifeVars, deskVars>>

InitShake == Init /\ scenario = "shake"

SpecShake == InitShake /\ [][NextShake]_vars

(***************************************************************************)
(* start() and stop() on the server and the service browser, with inbound  *)
(* connections from distinct addresses while the port is held              *)
(***************************************************************************)
LifeTasks == 1..MaxLifeTasks

NextLife ==
    \/ \E free \in BOOLEAN :
          HandlerStart(free) /\ UNCHANGED <<handlerVars, clientVars, deskVars>>
    \/ HandlerStop /\ UNCHANGED <<handlerVars, clientVars, deskVars>>
    \/ \E added \in BOOLEAN :
          BrowserStart(added) /\ UNCHANGED <<handlerVars, clientVars, deskVars>>
    \/ BrowserStop /\ UNCHANGED <<handlerVars, clientVars, deskVars>>
    \/ \E a \in LifeTasks : CleanupClose(a) /\ UNCHANGED <<clientVars, deskVars>>
    \/ \E t \in LifeTasks :
          server.listening /\ Accept(t, t) /\ UNCHANGED <<clientVars, lifeVars, deskVars>>
    \/ \E t \in LifeTasks :
          Handshake(t, RawKeyMsg("k1"), "t1") /\ UNCHANGED <<clientVars, lifeVars, deskVars>>
    \/ \E t \in LifeTasks : PeerClose(t) /\ UNCHANGED <<clientVars, lifeVars, deskVars>>
    \/ \E t \in LifeTasks : LoopEnd(t) /\ UNCHANGED <<clientVars, lifeVars, deskVars>>
    \/ \E t \in LifeTasks : CloseBegin(t) /\ UNCHANGED <<clientVars, lifeVars, deskVars>>
    \/ \E t \in LifeTasks : CloseFinish(t) /\ UNCHANGED <<clientVars, lifeVars, deskVars>>

InitLife == Init /\ scenario = "life"

SpecLife == InitLife /\ [][NextLife]_vars

(***************************************************************************)
(* Discovery: services of two names come, are advertised again, go and     *)
(* age, while handlers are registered and may raise                        *)
(***************************************************************************)
MaxHandlers == 2

DiscInstants == {0, 60, 300, 301, 360}
DiscNames == {"p1", "p2"}
\* what zeroconf has for a name: nothing, or the service a peer advertises
DiscInfos(name) == {NoInfo, ServiceInfo(IF name = "p1" THEN 1 ELSE 2, "k1")}
discFrame == <<scenario, task, lastEv, registries, guardData, delivered, clientVars,
               lifeVars, status, received, channel, sweep, security, lateVars>>

NextDisc ==
    \/ /\ Len(discovery.handlers) < MaxHandlers
       /\ AddHandler(Len(discovery.handlers) + 1)
       /\ UNCHANGED <<now, discFrame>>
    \/ \E name \in DiscNames, raising \in SUBSET (1..Len(discovery.handlers)) :
          \E info \in DiscInfos(name) :
             add_service("add", name, info, raising) /\ UNCHANGED <<now, discFrame>>
    \/ \E name \in DiscNames, raising \in SUBSET (1..Len(discovery.handlers)) :
          \E info \in DiscInfos(name) :
             add_service("update", name, info, raising) /\ UNCHANGED <<now, discFrame>>
    \/ \E name \in DiscNames : remove_service(name) /\ UNCHANGED <<now, discFrame>>
    \/ cleanup_stale_services /\ UNCHANGED <<now, discFrame>>
    \/ \E i \in DiscInstants : Tick(i) /\ UNCHANGED <<clientLife>>

InitDisc == Init /\ scenario = "disc"

SpecDisc == InitDisc /\ [][NextDisc]_vars

(***************************************************************************)
(* The attempt window and the blacklist: address 1 makes attempts, then    *)
(* address 2, then address 1 again, at any later instants                  *)
(***************************************************************************)
WindowInstants == {0, 50, 61, 1800, 1850, 1861}
WindowAddr(t) ==
    IF t > MAX_ATTEMPTS_PER_MINUTE + 2 /\ t <= 2 * MAX_ATTEMPTS_PER_MINUTE + 3
    THEN 2 ELSE 1

NextWindow ==
    \/ \E t \in 1..NWindowTasks : Accept(t, WindowAddr(t)) /\ UNCHANGED clientLife
    \/ \E i \in WindowInstants : Tick(i) /\ UNCHANGED clientLife

InitWindow == Init /\ scenario = "window"

SpecWindow == InitWindow /\ [][NextWindow]_vars

(***************************************************************************)
(* The status history filling up: connected events of new services come    *)
(* one second apart until the history is two short of its cap; from then   *)
(* on the oldest service or a new one connects, the newest reports an      *)
(* error, a disconnect comes without service info, or the oldest service   *)
(* is discovered, with or without a second in between                      *)
(***************************************************************************)
MaxStatusEvents == 52

QuietEvents == MAX_HISTORY_SIZE - 2
StatusEvents ==
    {[status_type |-> "connected", info |-> ServiceInfo(1, "k1")],
     [status_type |-> "connected", info |-> ServiceInfo(status.seen + 1, "k1")],
     [status_type |-> "error", info |-> ServiceInfo(status.seen, "k1")],
     [status_type |-> "disconnected", info |-> NoInfo]}
statusFrame == <<scenario, task, lastEv, registries, guardData, delivered, clientVars,
                 lifeVars, discovery, received, channel, sweep, security, lateVars>>

NextStatus ==
    \/ /\ status.events < QuietEvents
       /\ now' = now + 1
       /\ update_from_event("connected", ServiceInfo(status.seen + 1, "k1"), now')
       /\ UNCHANGED statusFrame
    \/ \E event \in StatusEvents, dt \in 0..1 :
          /\ status.events >= QuietEvents
          /\ status.events < MaxStatusEvents
          /\ now' = now + dt
          /\ update_from_event(event.status_type, event.info, now')
          /\ UNCHANGED statusFrame
    \/ \E dt \in 0..1 :
          /\ status.events >= QuietEvents
          /\ status.events < MaxStatusEvents
          /\ now' = now + dt
          /\ update_from_service_discovery(
                DiscoveredEvent("p1", ServiceInfo(1, "k1")), now')
          /\ UNCHANGED statusFrame

InitStatus == Init /\ scenario = "status"

SpecStatus == InitStatus /\ [][NextStatus]_vars

(***************************************************************************)
(* The client receiving: it connects to a peer that answers the key        *)
(* exchange, is disconnected or cleaned up, and receive_bookmarks is       *)
(* called on frames of every make                                          *)
(***************************************************************************)
RecvFrames ==
    LET records == <<1, 2>>
        good == InFrame("obj", TRUE, Sig(ClientToken, TRUE), ServerKey, "ok",
                        Plain("obj", "bookmarks", TRUE, ClientToken, records))
        payloads == {Plain("obj", "ack", TRUE, ClientToken, records),
                     Plain("obj", "absent", TRUE, ClientToken, records),
                     Plain("obj", "bookmarks", FALSE, ClientToken, <<>>),
                     Plain("obj", "bookmarks", TRUE, "t2", records),
                     Plain("obj", "bookmarks", TRUE, "", records),
                     Plain("badjson", "", FALSE, "", <<>>),
                     Plain("nonobj", "", FALSE, "", <<>>)}
    IN  {RecvTimeout, good}
        \cup {[good EXCEPT !.plain = p] : p \in payloads}
        \cup {[good EXCEPT !.sig = NoSig], [good EXCEPT !.sig = Sig("t2", TRUE)],
              [good EXCEPT !.sig = Sig(ClientToken, FALSE)],
              [good EXCEPT !.sig = Sig("t2", TRUE),
                           !.plain = Plain("obj", "bookmarks", TRUE, "t2", records)],
              [good EXCEPT !.data = FALSE], [good EXCEPT !.cipher = "tampered"],
              [good EXCEPT !.key = "k2"],
              [good EXCEPT !.env = "badjson"], [good EXCEPT !.env = "nonobj"]}

recvFrame == <<handlerVars, lifeVars, discovery, status, channel, sweep, security,
              lateVars>>

NextRecv ==
    \/ /\ client.connected \/ (TasksGone /\ wire.sockets < MaxDials)
       /\ ConnectCall /\ UNCHANGED <<recvFrame, received>>
    \/ Dial /\ UNCHANGED <<recvFrame, received>>
    \/ KeyReply(RawKeyMsg(ServerKey)) /\ UNCHANGED <<recvFrame, received>>
    \/ DrainTick(TRUE) /\ UNCHANGED <<recvFrame, received>>
    \/ ~client.connected /\ MonitorTick(TRUE) /\ UNCHANGED <<recvFrame, received>>
    \/ Disconnect /\ UNCHANGED <<recvFrame, received>>
    \/ Cleanup /\ UNCHANGED <<recvFrame, received>>
    \/ \E m \in RecvFrames : ReceiveBookmarks(m) /\ UNCHANGED recvFrame

InitRecv == Init /\ scenario = "recv"

SpecRecv == InitRecv /\ [][NextRecv]_vars

(***************************************************************************)
(* One message through the channel: the sender encrypts under the box of   *)
(* (a private, b public), the receiver decrypts under (b private, a public)*)
(***************************************************************************)
boxFrame == <<handlerVars, clientVars, lifeVars, discovery, status, received, sweep,
             security, lateVars>>

NextBox ==
    \/ EncryptStep /\ UNCHANGED boxFrame
    \/ DecryptStep /\ UNCHANGED boxFrame

InitBox == Init /\ scenario = "box"

SpecBox == InitBox /\ [][NextBox]_vars

(***************************************************************************)
(* The stale-connection sweep beside the connection handlers: peers, each  *)
(* of its own address, connect early or late, go quiet and hang up while   *)
(* the sweep cycles                                                        *)
(***************************************************************************)
NSweepTasks == 2
SweepInstants == {0, 200, 301}

sweepFrame == <<clientVars, lifeVars, discovery, status, received, channel, security,
               lateVars>>

NextSweep ==
    \/ SweepBegin /\ UNCHANGED sweepFrame
    \/ SweepResume /\ UNCHANGED sweepFrame
    \/ \E t \in 1..NSweepTasks :
          LoopEnd(t) /\ sweep' = Tracked(sweep) /\ UNCHANGED sweepFrame
    \/ \E t \in 1..NSweepTasks :
          Accept(t, t) /\ sweep' = Tracked(sweep) /\ UNCHANGED sweepFrame
    \/ \E t \in 1..NSweepTasks :
          Handshake(t, RawKeyMsg("k1"), "t1") /\ sweep' = Tracked(sweep)
          /\ UNCHANGED sweepFrame
    \/ \E t \in 1..NSweepTasks :
          CloseBegin(t) /\ sweep' = Tracked(sweep) /\ UNCHANGED sweepFrame
    \/ \E t \in 1..NSweepTasks :
          CloseFinish(t) /\ sweep' = Tracked(sweep) /\ UNCHANGED sweepFrame
    \/ \E i \in SweepInstants : Tick(i) /\ UNCHANGED <<sweep, sweepFrame>>
    \/ \E t \in 1..NSweepTasks :
          PeerClose(t) /\ sweep' = Tracked(sweep) /\ UNCHANGED sweepFrame

InitSweep == Init /\ scenario = "sweep"

SpecSweep == InitSweep /\ [][NextSweep]_vars

(***************************************************************************)
(* The security-data sweep beside the connection handlers: peers connect,  *)
(* send a frame and hang up, an hour passes, the sweep cycles              *)
(***************************************************************************)
NSecureTasks == 2
MaxSecureMsgs == 1
SecureInstants == {0, 3601}
SecureReceived == SumSeq([t \in 1..NSecureTasks |-> task[t].nrecv])

secureFrame == <<clientVars, lifeVars, discovery, status, received, channel, sweep,
                lateVars>>

NextSecure ==
    \/ SecuritySweep /\ UNCHANGED secureFrame
    \/ \E t \in 1..NSecureTasks :
          Accept(t, t) /\ security' = Attempted(t) /\ UNCHANGED secureFrame
    \/ \E t \in 1..NSecureTasks :
          Handshake(t, RawKeyMsg("k1"), "t1") /\ UNCHANGED <<security, secureFrame>>
    \/ \E t \in 1..NSecureTasks :
          /\ SecureReceived < MaxSecureMsgs
          /\ Receive(t, ClientBookmarks(<<1>>, "t1", "k1", 100), TRUE)
          /\ UNCHANGED <<security, secureFrame>>
    \/ \E t \in 1..NSecureTasks :
          CloseBegin(t) /\ UNCHANGED <<security, secureFrame>>
    \/ \E t \in 1..NSecureTasks :
          CloseFinish(t) /\ UNCHANGED <<security, secureFrame>>
    \/ \E i \in SecureInstants : Tick(i) /\ UNCHANGED <<security, secureFrame>>
    \/ \E t \in 1..NSecureTasks :
          PeerClose(t) /\ UNCHANGED <<security, secureFrame>>

InitSecure == Init /\ scenario = "secure"

SpecSecure == InitSecure /\ [][NextSecure]_vars

(***************************************************************************)
(* The client and its tasks: connect, disconnect and cleanup are called at *)
(* any time, also while tasks of an earlier connection are still asleep;   *)
(* record lists are sent directly and from the queue, pings by the ping    *)
(* task                                                                    *)
(***************************************************************************)
tasksFrame == <<handlerVars, lifeVars, discovery, status, received, channel, sweep,
                security, halt>>

NextTasks ==
    \/ /\ client.connected \/ wire.sockets < MaxDials
       /\ ConnectCall /\ UNCHANGED <<lateVars, tasksFrame>>
    \/ Dial /\ UNCHANGED <<lateVars, tasksFrame>>
    \/ \E reply \in {KeyTimeout, RawKeyMsg(ServerKey)} :
          KeyReply(reply) /\ extra' = Spawned /\ UNCHANGED <<idlog, tasksFrame>>
    \/ \E recs \in 1..MaxMsgs :
          /\ hist.fate[recs] = "new"
          /\ send_bookmarks(recs, TRUE)
          /\ idlog' = SentNow /\ UNCHANGED <<extra, tasksFrame>>
    \/ DrainTick(TRUE) /\ idlog' = SentLater /\ UNCHANGED <<extra, tasksFrame>>
    \/ DrainDone /\ idlog' = SentAtLast /\ UNCHANGED <<extra, tasksFrame>>
    \/ /\ SendOk(client, TRUE) => client.message_counter < MaxMsgs + MaxPings
       /\ MonitorTick(TRUE)
       /\ idlog' = SentNow /\ UNCHANGED <<extra, tasksFrame>>
    \/ Reconnect /\ UNCHANGED <<lateVars, tasksFrame>>
    \/ ExtraDrainEnds /\ UNCHANGED tasksFrame
    \/ ExtraMonitorEnds /\ UNCHANGED tasksFrame
    \/ Disconnect /\ UNCHANGED <<lateVars, tasksFrame>>
    \/ Cleanup /\ idlog' = NoIds /\ UNCHANGED <<extra, tasksFrame>>
    \/ LinkLost(TRUE) /\ UNCHANGED <<lateVars, tasksFrame>>

InitTasks == Init /\ scenario = "tasks"

SpecTasks == InitTasks /\ [][NextTasks]_vars

(***************************************************************************)
(* Stopping: a serving handler with its two sweeps ("halt") and a browsing *)
(* service browser with its sweep ("bhalt"); peers connect and go quiet,   *)
(* services are found, the sweeps cycle, and stop() is called at any time  *)
(***************************************************************************)
NHaltTasks == 2
HaltInstants == {0, 301}
haltFixed == <<clientVars, status, received, channel, extra, idlog>>
haltServer == <<scenario, now, task, lastEv, registries, guardData, delivered>>

NextHalt ==
    \/ /\ halt.handler = "none" /\ STALE_SWEEP \in halt.alive
       /\ SweepBegin
       /\ UNCHANGED <<lifeVars, discovery, security, halt, haltFixed>>
    \/ /\ halt.handler = "none" /\ STALE_SWEEP \in halt.alive
       /\ SweepResume
       /\ UNCHANGED <<lifeVars, discovery, security, halt, haltFixed>>
    \/ /\ halt.handler = "none" /\ SECURITY_SWEEP \in halt.alive
       /\ SecuritySweep
       /\ UNCHANGED <<lifeVars, discovery, sweep, halt, haltFixed>>
    \/ \E t \in 1..NHaltTasks :
          /\ server.listening
          /\ Accept(t, t) /\ sweep' = Tracked(sweep)
          /\ UNCHANGED <<lifeVars, discovery, security, halt, haltFixed>>
    \/ \E t \in 1..NHaltTasks :
          /\ Handshake(t, RawKeyMsg("k1"), "t1") /\ sweep' = Tracked(sweep)
          /\ UNCHANGED <<lifeVars, discovery, security, halt, haltFixed>>
    \/ \E t \in 1..NHaltTasks :
          /\ LoopEnd(t) /\ sweep' = Tracked(sweep)
          /\ UNCHANGED <<lifeVars, discovery, security, halt, haltFixed>>
    \/ \E t \in 1..NHaltTasks :
          /\ CloseBegin(t) /\ sweep' = Tracked(sweep)
          /\ UNCHANGED <<lifeVars, discovery, security, halt, haltFixed>>
    \/ \E t \in 1..NHaltTasks :
          /\ CloseFinish(t) /\ sweep' = Tracked(sweep)
          /\ UNCHANGED <<lifeVars, discovery, security, halt, haltFixed>>
    \/ \E i \in HaltInstants :
          Tick(i) /\ UNCHANGED <<lifeVars, discovery, sweep, security, halt, haltFixed>>
    \/ HaltBegin
       /\ UNCHANGED <<haltServer, browser, lastCall, discovery, sweep, security,
                      haltFixed>>
    \/ StaleSweepCancelled
       /\ UNCHANGED <<browser, lastCall, discovery, security, haltFixed>>
    \/ SecuritySweepCancelled
       /\ UNCHANGED <<haltServer, browser, lastCall, discovery, sweep, security,
                      haltFixed>>
    \/ HaltRelease
       /\ UNCHANGED <<haltServer, browser, discovery, sweep, security, haltFixed>>
    \/ \E a \in 1..NHaltTasks :
          /\ CleanupClose(a) /\ sweep' = Tracked(sweep)
          /\ UNCHANGED <<discovery, security, halt, haltFixed>>

\* the same for the service browser
NextBrowserHalt ==
    \/ /\ halt.browser = "none" /\ halt.balive
       /\ cleanup_stale_services
       /\ UNCHANGED <<haltServer, lifeVars, sweep, security, halt, haltFixed>>
    \/ \E name \in DiscNames :
          /\ browser.browsing
          /\ add_service("add", name, ServiceInfo(1, "k1"), {})
          /\ UNCHANGED <<haltServer, lifeVars, sweep, security, halt, haltFixed>>
    \/ \E i \in HaltInstants :
          /\ scenario = "bhalt"
          /\ Tick(i)
          /\ UNCHANGED <<lifeVars, discovery, sweep, security, halt, haltFixed>>
    \/ BrowserHaltBegin
       /\ UNCHANGED <<haltServer, server, lastCall, discovery, sweep, security,
                      haltFixed>>
    \/ BrowserSweepCancelled
       /\ UNCHANGED <<haltServer, server, lastCall, discovery, sweep, security,
                      haltFixed>>
    \/ BrowserHaltRelease
       /\ UNCHANGED <<haltServer, server, discovery, sweep, security, haltFixed>>

NextHalts ==
    \/ scenario = "halt" /\ NextHalt
    \/ scenario = "bhalt" /\ NextBrowserHalt

InitHalt == Init /\ scenario \in {"halt", "bhalt"}

SpecHalt == InitHalt /\ [][NextHalts]_vars

(***************************************************************************)
(* The message loop after _handle_message has closed the socket            *)
(*                                                                         *)
(* _handle_message catches its own errors, closes the socket (lines 303    *)
(* and 306) and returns; the loop of lines 204-217 breaks only after a     *)
(* failed rate or size check or on an exception.  Its next iteration asks  *)
(* the socket for the next frame: recv() hands out a frame that arrived    *)
(* before the close, and raises ConnectionClosed only when none is left.   *)
(* Receive takes the second outcome with the close; ReceiveQueued is the   *)
(* first.                                                                  *)
(***************************************************************************)
ReceiveQueued(t, m) ==
    /\ task[t].pc = "finally"
    /\ ~task[t].open
    /\ lastEv.task = t
    /\ lastEv.outcome = "close"
    /\ lastEv.failed = ""
    /\ LET address == task[t].addr
           g == MessageGates(address, m.size)
           \* line 299: send() on the closed socket raises, line 304 catches it
           h == _handle_message(address, m, g.states, FALSE)
       IN  /\ task' = [task EXCEPT ![t].nrecv = @ + 1]
           /\ connection_states' = IF g.failed # "" THEN g.states ELSE h.states
           /\ message_sizes' = g.sizes
           /\ lastEv' = Event(t, m, g.gates, g.failed, "close",
                              IF g.failed # "" THEN g.code ELSE h.code, NoReply)
    /\ UNCHANGED <<scenario, now, connections, peer_keys, connection_attempts,
                   blacklist, attemptLog, delivered>>

MaxOrderMsgs == 3
OrderTasks == {1, 2}

OrderReceived == task[1].nrecv + task[2].nrecv

NextOrder ==
    \/ /\ \E t \in OrderTasks : Accept(t, t)
       /\ UNCHANGED clientLife
    \/ /\ \E t \in OrderTasks, km \in ProtoKeyMsgs : Handshake(t, km, "t1")
       /\ UNCHANGED clientLife
    \/ \E t \in OrderTasks, garbled \in BOOLEAN :
          \E m \in ProtoFrames(task[t].key) :
             OrderReceived < MaxOrderMsgs /\ Receive(t, m, ~garbled)
             /\ UNCHANGED clientLife
    \/ \E t \in OrderTasks :
          \E m \in ProtoFrames(task[t].key) :
             OrderReceived < MaxOrderMsgs /\ ReceiveQueued(t, m)
             /\ UNCHANGED clientLife
    \/ \E t \in OrderTasks : PeerClose(t) /\ UNCHANGED clientLife
    \/ \E t \in OrderTasks : CloseBegin(t) /\ UNCHANGED clientLife
    \/ \E t \in OrderTasks : CloseFinish(t) /\ UNCHANGED clientLife

InitOrder == Init /\ scenario = "order"

SpecOrder == InitOrder /\ [][NextOrder]_vars

\* NetworkConnectionStatus.is_connected, lines 22-25, and
\* NetworkConnectionStatusType.is_connected
is_connected == status.status_type = "connected"

(***************************************************************************)
(* The program under any one of the environments above                     *)
(***************************************************************************)
Next ==
    \/ scenario = "guard" /\ NextGuard
    \/ scenario = "cap" /\ NextCap
    \/ scenario = "rate" /\ NextRate
    \/ scenario = "size" /\ NextSize
    \/ scenario = "proto" /\ NextProto
    \/ scenario = "client" /\ NextClient
    \/ scenario = "queue" /\ NextQueue
    \/ scenario = "shake" /\ NextShake
    \/ scenario = "life" /\ NextLife
    \/ scenario = "disc" /\ NextDisc
    \/ scenario = "window" /\ NextWindow
    \/ scenario = "status" /\ NextStatus
    \/ scenario = "recv" /\ NextRecv
    \/ scenario = "box" /\ NextBox
    \/ scenario = "sweep" /\ NextSweep
    \/ scenario = "secure" /\ NextSecure
    \/ scenario = "tasks" /\ NextTasks
    \/ scenario = "halt" /\ NextHalt
    \/ scenario = "bhalt" /\ NextBrowserHalt
    \/ scenario = "order" /\ NextOrder

Spec == Init /\ [][Next]_vars

\* the environments in which a key exchange can succeed on either side
NextLink ==
    \/ scenario = "client" /\ NextClient
    \/ scenario = "proto" /\ NextProto

InitLink == Init /\ scenario \in {"client", "proto"}

SpecLink == InitLink /\ [][NextLink]_vars

\* the environments in which an admission or per-message check can fail
NextGates ==
    \/ scenario = "guard" /\ NextGuard
    \/ scenario = "cap" /\ NextCap
    \/ scenario = "rate" /\ NextRate
    \/ scenario = "size" /\ NextSize

InitGates == Init /\ scenario \in {"guard", "cap", "rate", "size"}

SpecGates == InitGates /\ [][NextGates]_vars

(***************************************************************************)
(* Properties                                                              *)
(***************************************************************************)
EvTask == task[lastEv.task]
Handled == lastEv.task # 0 /\ lastEv.failed = ""

\* C1: from an address without attempt history, attempts 1 to 5 made within 60
\* seconds of the first pass the attempt check; the 6th within those 60 seconds
\* is rejected with 4002 and blacklists the address until 30 minutes later; a
\* 7th attempt before that time is rejected by the blacklist check (4001) and
\* leaves the attempt counter as it was.
C1_SixAttemptsBlacklist ==
    \A a \in DOMAIN attemptLog :
       LET h == attemptLog[a] IN
       /\ (h.n <= 5 /\ h.within) => h.code \notin {4001, 4002}
       /\ (h.n = 6 /\ h.within) =>
             /\ h.code = 4002
             /\ a \in DOMAIN blacklist
             /\ blacklist[a] = h.at + 1800
             /\ \E t \in AllTasks : task[t].addr = a /\ task[t].code = 4002
                                    /\ task[t].pc = "done" /\ ~task[t].open
       /\ (h.n = 7 /\ h.sixthAt # None /\ h.at < h.sixthAt + 1800) =>
             /\ h.code = 4001
             /\ h.count = h.countBefore
             /\ connection_attempts[a].count = 6

C1_SeventhRejected ==
    \E a \in DOMAIN attemptLog :
       LET h == attemptLog[a] IN
       h.n = 7 /\ h.sixthAt # None /\ h.at < h.sixthAt + 1800 /\ h.code = 4001

C3_AnomalyRejected ==
    ( /\ lastEv.task # 0
      /\ lastEv.failed # "rate"
      /\ lastEv.preSizes = [i \in 1..10 |-> 1000]
      /\ lastEv.msg.size = 3500 )
    => lastEv.failed = "size" /\ lastEv.code = 4006

\* C4: a frame whose signature does not match its payload makes the server
\* close the connection with 4007; no ack is sent and nothing is handed to the
\* collaborator.
C4_BadSignatureCloses ==
    (Handled /\ lastEv.decrypts /\ lastEv.msg.sig = "bad") =>
       /\ lastEv.outcome = "close"
       /\ lastEv.code = 4007
       /\ delivered = <<>>

\* C5: a payload whose session_token differs from the session token of the
\* connection it arrives on makes the server close the connection with a
\* protocol error code, without a pong, ack or error reply.
C5_TokenMismatchCloses ==
    ( /\ Handled
      /\ lastEv.decrypts
      /\ lastEv.msg.plain.form = "obj"
      /\ lastEv.preToken # ""
      /\ lastEv.msg.plain.token # lastEv.preToken )
    => lastEv.outcome = "close" /\ lastEv.code \in {4007, 4008}

\* C6: the records of every accepted bookmarks frame are handed to the
\* collaborator's callback exactly once, unchanged and in order, and the
\* server replies ack.
C6_BookmarksHandedOver ==
    (Handled /\ lastEv.outcome = "reply" /\ lastEv.msg.plain.type = "bookmarks") =>
       /\ lastEv.reply.type = "ack"
       /\ Cardinality({i \in DOMAIN delivered :
                          delivered[i] = lastEv.msg.plain.recs}) = 1

\* C7: every ping the client's ping task sends over an established link is
\* answered with a pong that echoes the ping's session token, and the
\* connection is not closed.
C7_PingAnswered ==
    ( /\ Handled
      /\ lastEv.decrypts
      /\ lastEv.msg = ClientPing(lastEv.msg.plain.token, lastEv.msg.key, lastEv.msg.size) )
    => /\ lastEv.outcome = "reply"
       /\ lastEv.reply.type = "pong"
       /\ lastEv.reply.token = lastEv.msg.plain.token

\* C8: a frame that decrypts, parses and has the required fields, of a type
\* other than ping and bookmarks, gets an error reply and the connection is
\* not closed.
C8_UnknownTypeAnswered ==
    ( /\ Handled
      /\ lastEv.decrypts
      /\ lastEv.msg.env = "obj" /\ lastEv.msg.data /\ lastEv.msg.sig # "none"
      /\ lastEv.msg.plain.form = "obj"
      /\ _validate_message(lastEv.msg.plain)
      /\ lastEv.preToken # ""
      /\ lastEv.msg.plain.type \notin {"ping", "bookmarks"} )
    => lastEv.outcome = "reply" /\ lastEv.reply.type = "error"

\* C9: the server never holds more than max_connections (10) registered
\* connections.
C9_AtMostMaxConnections == Cardinality(DOMAIN connections) <= 10

\* C10: a connection passes the checks blacklist, attempts, capacity in that
\* order, a frame the checks rate then size before it is decrypted; the first
\* check that fails closes the socket with its own code (4001, 4002, 4003,
\* 4005, 4006) and nothing later runs for the connection: a blacklisted attempt
\* is not counted, a rate-limited frame is not entered in the size window, and
\* the handler is past its handshake and its message loop.
ConnectionCodes == [blacklist |-> 4001, attempts |-> 4002, capacity |-> 4003]
MessageCodes == [rate |-> 4005, size |-> 4006]
IsPrefix(s, full) == Len(s) <= Len(full) /\ \A i \in 1..Len(s) : s[i] = full[i]

GateCount == [blacklist |-> 1, attempts |-> 2, capacity |-> 3, rate |-> 1, size |-> 2]

C11_EstablishedOnlyByKeyExchange ==
    /\ client.connected =>
          /\ client.peer_key = ServerKey
          /\ client.websocket # None
          /\ hist.connect = "ok"
    /\ (hist.connect \in {"failed", "timeout"} /\ client.connecting = "no") =>
          /\ ~client.connected
          /\ client.peer_key = ""
          /\ client.websocket = None
          /\ wire.open = {}
    /\ \A a \in DOMAIN connections :
          /\ task[connections[a]].registered
          /\ task[connections[a]].key # ""
          /\ a \in DOMAIN connection_states
    /\ \A t \in AllTasks :
          LET w == task[t] IN
          /\ w.registered => w.key # ""
          /\ w.code = 4004 => ~w.open /\ ~w.registered /\ w.key = ""
          /\ (w.pc \in {"finally", "closewait", "done"} /\ ~w.registered) =>
                /\ \A a \in DOMAIN connections : connections[a] # t
                /\ w.pc = "done" => ~w.open

C11_Established ==
    /\ client.connected
    /\ client.peer_key = ServerKey
    /\ hist.connect = "ok"
    /\ client.websocket \in wire.open

\* C12: in a key exchange between the client and the server in which the
\* transport delivers and neither side times out, both sides end up holding
\* the other's key: the client's connect() has succeeded and the server has
\* registered the connection under the client's key.  A side that times out
\* closes the connection (the server with 4004).
C12_BothHoldKeys ==
    LET s == wire.sockets IN
    /\ ( /\ s >= 1
         /\ client.connecting = "no"
         /\ task[s].pc \notin {"idle", "handshake"}
         /\ task[s].failed = ""
         /\ ~wire.stalled
         /\ hist.lastOp.op = "none"
         /\ hist.connect # "timeout"
         /\ task[s].code # 4004 )
       => /\ hist.connect = "ok"
          /\ task[s].registered
          /\ task[s].key = ClientKey
    /\ (hist.connect = "timeout" /\ client.connecting = "no") =>
          ~client.connected /\ client.websocket = None
    /\ \A t \in 1..MaxShakes : task[t].code = 4004 => ~task[t].open

\* C13: when the link is lost and the peer stays unreachable, the client
\* makes 5 reconnect attempts after delays of 5, 10, 20, 40 and 80 seconds and
\* then is disconnected for good, with the connection-lost event emitted:
\* once the ping task has ended over a lost link, that is the state.
C13_FiveAttemptsThenTerminal ==
    ( /\ hist.reconnect \notin {"none", "sleeping"}
      /\ client.monitor = "none"
      /\ client.connecting = "no"
      /\ ~wire.reachable
      /\ hist.lastOp.op = "none" )
    => /\ ~client.connected
       /\ hist.lost
       /\ hist.delays = <<5, 10, 20, 40, 80>>
       /\ client.reconnect_attempts = 5

\* C14: the reconnect attempt that follows a lost link dials the peer again;
\* when it is over and the peer is reachable, the client is connected over a
\* socket that delivers, with reconnect_attempts 0 and its ping task and drain
\* task running.
C14_ReconnectRedials ==
    ( /\ hist.reconnect \notin {"none", "sleeping", "gaveup"}
      /\ hist.lastOp.op = "none" )
    => /\ hist.reconnect = "dialled"
       /\ (client.connecting = "no" /\ wire.reachable) =>
             /\ client.connected
             /\ client.websocket \in wire.alive
             /\ client.reconnect_attempts = 0
             /\ client.monitor = "sleep"
             /\ client.drain # "none"

\* the places record list m holds in the queue and in the drain task's hands
Held(m) ==
    Cardinality({i \in DOMAIN client.message_queue : client.message_queue[i].data = m})
       + (IF client.inflight.data = m THEN 1 ELSE 0)

\* C15: a record list given to send_bookmarks while the client is not
\* connected is queued exactly once, and once the client is connected over a
\* socket that delivers, the drain task sends what it takes from the queue:
\* no drain tick of that connection puts a message back.
C15_QueuedThenSent ==
    /\ \A m \in 1..MaxMsgs : hist.fate[m] = "queued" => Held(m) = 1
    /\ ( /\ client.connected
         /\ client.session_token # ""
         /\ client.websocket \in wire.alive
         /\ hist.lastDrain.result # "none" )
       => hist.lastDrain.result \in {"sending", "sent"}

\* C16: a drain tick takes the head of the queue, and a failed send puts that
\* message at the tail; a queued message is held exactly once, in the queue or
\* by the drain task, until its send succeeds or cleanup() clears the queue:
\* it leaves through nothing else, not through a failed send or a disconnect.
C16_LeavesOnlyBySendOrCleanup ==
    /\ [](\A m \in 1..MaxMsgs :
             /\ hist.fate[m] = "queued" => Held(m) = 1
             /\ hist.fate[m] \in {"new", "refused", "sent"} => Held(m) = 0)
    /\ [][ /\ (hist'.lastDrain # hist.lastDrain /\ hist'.lastDrain.result = "sending") =>
                /\ client'.inflight = Head(client.message_queue)
                /\ client'.message_queue = Tail(client.message_queue)
           /\ (hist'.lastDrain # hist.lastDrain /\ hist'.lastDrain.result = "requeued") =>
                client'.message_queue =
                   IF client.drain = "sending"
                   THEN Append(client.message_queue, client.inflight)
                   ELSE Append(Tail(client.message_queue), Head(client.message_queue))
           /\ \A m \in 1..MaxMsgs :
                (hist.fate[m] = "queued" /\ hist'.fate[m] # "queued") =>
                   \/ /\ hist'.fate[m] = "sent"
                      /\ hist'.lastDrain.result = "sent"
                      /\ wire'.sent = Append(wire.sent, Message(m))
                   \/ /\ hist'.fate[m] = "cleared"
                      /\ hist'.lastOp # hist.lastOp
                      /\ hist'.lastOp.op = "cleanup" ]_vars

C16_RequeuedBehind ==
    /\ hist.lastDrain.result = "requeued"
    /\ Len(client.message_queue) = 2
    /\ hist.fate[client.message_queue[2].data] = "queued"
    /\ hist.lastOp.op = "disconnect"

\* the client's channel is closed
ChannelClosed(c) == ~c.connected /\ c.websocket = None /\ c.peer_key = ""

C18_StoppedServerHoldsNothing ==
    (lastCall.who = "handler" /\ lastCall.op = "stop" /\ lastCall.wasRunning) =>
       /\ DOMAIN connections = {}
       /\ ~server.advertised
       /\ ~server.listening

\* C19: stop() on a server or service browser that is not running, and
\* start() on one that is running, change nothing: not the running flag, the
\* sweep tasks, the listener, the registration, the pending close tasks, the
\* sockets or the registries.
NoOpCall(c) == (c.op = "stop" /\ ~c.wasRunning) \/ (c.op = "start" /\ c.wasRunning)

C19_NoOpCalls ==
    [][ (lastCall' # lastCall /\ NoOpCall(lastCall')) =>
           /\ ~lastCall'.raised
           /\ UNCHANGED <<server, browser, task, registries, guardData>> ]_vars

C19_SecondStop ==
    /\ lastCall.who = "handler"
    /\ lastCall.op = "stop"
    /\ ~lastCall.wasRunning
    /\ server.closing # {}
    /\ server.listening

\* C20: a start() that raised leaves the instance not running: its running
\* flag is false and none of its sweep tasks is alive.
C20_FailedStartNotRunning ==
    (lastCall.op = "start" /\ lastCall.raised) =>
       /\ lastCall.who = "handler" => ~server._is_running /\ server.sweeps = 0
       /\ lastCall.who = "browser" => ~browser._is_running /\ ~browser.sweep

C23_RemovalNotified ==
    \A n \in discovery.last.evicted :
       \A i \in 1..Len(discovery.handlers) :
          \E j \in 1..Len(discovery.calls) :
             /\ discovery.calls[j].handler = discovery.handlers[i]
             /\ discovery.calls[j].event.kind = "removed"
             /\ discovery.calls[j].event.name = n

\* C24: a connection attempt from a blacklisted address made before the
\* entry's unblock time, which is 1800 seconds after the blacklisting, is
\* refused by the blacklist lookup and leaves the blacklist as it is; the
\* first attempt at or after the unblock time removes that address's entry,
\* leaves the entries of all other addresses as they are, and passes the
\* attempt check.
LoggedBefore(a) == IF a \in DOMAIN attemptLog THEN attemptLog[a] ELSE NoAttempts

C24_BlacklistExpiresLazily ==
    [][ \A a \in DOMAIN attemptLog' :
           attemptLog'[a] # LoggedBefore(a) =>
              IF a \in DOMAIN blacklist
              THEN IF now < blacklist[a]
                   THEN attemptLog'[a].code = 4001 /\ blacklist' = blacklist
                   ELSE /\ a \notin DOMAIN blacklist'
                        /\ \A b \in DOMAIN blacklist \ {a} :
                              b \in DOMAIN blacklist' /\ blacklist'[b] = blacklist[b]
                        /\ attemptLog'[a].code \notin {4001, 4002}
              ELSE a \in DOMAIN blacklist' => blacklist'[a] = now + 1800 ]_vars

C24_AdmittedAfterExpiry ==
    LET h == LoggedBefore(1) IN
    /\ h.sixthAt # None
    /\ h.at = h.sixthAt + 1800
    /\ h.code = 0
    /\ 1 \notin DOMAIN blacklist
    /\ 2 \in DOMAIN blacklist
    /\ \E t \in AllTasks : task[t].addr = 1 /\ task[t].open

\* C25: the attempt window slides: an attempt that is the sixth or a later
\* one of an address within less than 60 seconds is rejected and leaves the
\* address blacklisted, until 1800 seconds later when it was the attempt
\* check that rejected it.
C25_SlidingWindow ==
    \A a \in DOMAIN attemptLog :
       LET h == attemptLog[a] IN
       (Len(h.recent) = 6 /\ h.at - h.recent[1] < 60) =>
          /\ h.code \in {4001, 4002}
          /\ a \in DOMAIN blacklist
          /\ h.code = 4002 => blacklist[a] = h.at + 1800

\* the history entry held under key k
EntryOf(history, k) == history[IndexOfKey(history, k)]

\* C26: the status history, empty at first, never holds more than 50
\* entries; an update that records under a key not yet present while 50
\* entries are held takes out exactly one entry, one whose timestamp no other
\* entry's is older than; any other update takes out nothing; an update
\* leaves every entry under another key as it was.
C26_HistoryBounded ==
    /\ [](Len(status.service_history) <= 50)
    /\ [][ (status'.last # status.last /\ status'.last.key # NoKey) =>
             LET before == status.service_history
                 after == status'.service_history
                 key == status'.last.key
                 gone == Keys_of(before) \ Keys_of(after)
             IN  /\ Keys_of(after) = (Keys_of(before) \ gone) \cup {key}
                 /\ Len(after) = Cardinality(Keys_of(after))
                 /\ \A k \in Keys_of(after) \ {key} :
                       EntryOf(after, k) = EntryOf(before, k)
                 /\ IF Len(before) = 50 /\ key \notin Keys_of(before)
                    THEN /\ Cardinality(gone) = 1
                         /\ \A k \in gone : \A i \in 1..Len(before) :
                               EntryOf(before, k).timestamp <= before[i].timestamp
                    ELSE gone = {} ]_vars

C26_RefreshedOldestSurvives ==
    /\ Len(status.service_history) = 50
    /\ status.events > 50
    /\ AddressKey(ServiceInfo(1, "k1")) \in Keys_of(status.service_history)
    /\ AddressKey(ServiceInfo(2, "k1")) \notin Keys_of(status.service_history)
    /\ status.last.key = AddressKey(ServiceInfo(status.seen, "k1"))

\* what C27 requires of a frame for the client as it is
Trusted(c, m) ==
    /\ m.env = "obj" /\ m.data /\ m.sig.present
    /\ CanOpen(c, m)
    /\ m.sig.intact /\ m.sig.signer = c.session_token
    /\ m.plain.form = "obj"
    /\ m.plain.token = c.session_token
    /\ m.plain.type = "bookmarks"

\* C27: receive_bookmarks returns records, the records of the payload, only
\* for a frame that has data and signature, whose signature verifies over the
\* decrypted text under the client's session token, whose payload carries
\* the client's session token and has type bookmarks; for every other frame
\* it raises, returns nothing and emits nothing.
C27_ReturnsOnlyTrusted ==
    [][ received' # received =>
          /\ received'.result \in {"returned", "raised"}
          /\ received'.result = "returned" =>
                /\ client.connected
                /\ Trusted(client, received'.frame)
                /\ received'.records = received'.frame.plain.recs
          /\ ~(client.connected /\ Trusted(client, received'.frame)) =>
                /\ received'.result = "raised"
                /\ received'.records = <<>>
                /\ received'.emitted = <<>> ]_vars

C27_RecordsReturned ==
    /\ received.result = "returned"
    /\ received.records = <<1, 2>>
    /\ client.connected
    /\ wire.sockets = 2

\* C28: what the sender's _encrypt_message returns for a message m under the
\* box of (A private, B public) is a string, and the receiver's
\* _decrypt_message under the box of (B private, A public) returns m for it.
C28_RoundTrip ==
    /\ channel.stage \in {"encrypted", "decrypted"} => channel.sent # RaisedError
    /\ channel.stage = "decrypted" => channel.got = channel.message

\* the connection of handler task t is closed and no longer registered
Unregistered(t) ==
    /\ ~task[t].open
    /\ ~(task[t].addr \in DOMAIN connections /\ connections[task[t].addr] = t)

\* C29: when a cycle of the stale-connection sweep ends, every connection that
\* was registered with a last_message more than 5 minutes old when the cycle
\* began is closed and unregistered.
C29_CycleClosesEveryStale ==
    [][ sweep'.ended # sweep.ended =>
          \A t \in sweep'.stale : Unregistered(t)' ]_vars

\* C30: after a cycle of the security-data sweep no attempt record is left
\* for an address whose last connection attempt was more than an hour before
\* the cycle, and no message-size history for an address without a
\* registered connection.
C30_SweepLeavesNoOldRecord ==
    [][ security'.flip # security.flip =>
          /\ \A a \in DOMAIN connection_attempts' :
                ~(now - security.last[a] > attempt_max_age)
          /\ \A a \in DOMAIN message_sizes' : a \in DOMAIN connections' ]_vars

ActiveDrains == extra.drains + (IF client.drain # "none" THEN 1 ELSE 0)
ActiveMonitors == extra.monitors + (IF client.monitor # "none" THEN 1 ELSE 0)

\* C31: when disconnect() returns, no ping task and no drain task of the
\* client is left alive, and at no time is more than one ping task or more
\* than one drain task alive.
C31_DisconnectEndsTasks ==
    [][ /\ (hist'.lastOp # hist.lastOp /\ hist'.lastOp.op = "disconnect")
            => (ActiveDrains' = 0 /\ ActiveMonitors' = 0)
        /\ ActiveDrains' <= 1
        /\ ActiveMonitors' <= 1 ]_vars

\* C32: while a sweep task of the handler is alive, stop() has closed no
\* connection, has not unregistered the service and has not closed
\* zeroconf; while the sweep task of the browser is alive, stop() has not
\* removed the listener nor closed zeroconf; and once stop() has begun to
\* release, no sweep runs a step.
C32_SweepsEndBeforeRelease ==
    /\ [](/\ halt.alive # {} =>
                /\ server.advertised
                /\ server.zeroconf = "open"
                /\ server.closing = {}
          /\ browser.sweep => (browser.browsing /\ browser.zeroconf = "open"))
    /\ [][ /\ halt.handler = "done" =>
                /\ sweep'.ended = sweep.ended
                /\ sweep'.pc = sweep.pc
                /\ security'.flip = security.flip
           /\ halt.browser = "done" =>
                ~(discovery'.last # discovery.last /\ discovery'.last.op = "sweep")
       ]_vars

C32_StoppedAfterSweeping ==
    /\ halt.handler = "done"
    /\ sweep.ended
    /\ security.flip
    /\ \E t \in 1..NHaltTasks : task[t].registered /\ ~task[t].open /\ task[t].pc = "open"

\* C33: within one session the message_ids of the messages the client has
\* sent strictly increase in send order, whatever the interleaving of the
\* ping task, the drain task and direct send_bookmarks calls.
C33_IdsStrictlyIncrease ==
    \A i, j \in DOMAIN idlog.ids : i < j => idlog.ids[i] < idlog.ids[j]

\* C34: within one connection the server handles inbound messages one at a
\* time in arrival order: a message is checked only when every earlier one
\* has been answered, each accepted message gets exactly one reply, a
\* message that is not answered closes the socket, and no message is handled
\* on a connection whose socket is already closed.
C34_OneAtATimeInOrder ==
    [][ lastEv' # lastEv =>
           LET t == lastEv'.task IN
              /\ task[t].open
              /\ task[t].nsent = task[t].nrecv
              /\ lastEv'.n = task[t].nrecv + 1
              /\ task'[t].nrecv = lastEv'.n
              /\ task'[t].nsent = task[t].nsent
                                  + (IF lastEv'.outcome = "reply" THEN 1 ELSE 0)
              /\ lastEv'.outcome # "reply" => ~task'[t].open
      ]_vars

\* the messages of the connection that passed the rate check since the last
\* window reset: the counter, and the message that reset the window (lines
\* 396-399 accept it without counting it) unless the window is the one that
\* registration opened
PassedInWindow(t) ==
    LET state == connection_states[task[t].addr]
    IN  state.message_count
        + (IF state.rate_limit_reset # task[t].regTime THEN 1 ELSE 0)

\* C35: in every rate-limit window, the first or a later one, at most 100
\* messages of the connection pass the rate check, counted from the reset
\* that opened the window.
C35_BudgetInEveryWindow ==
    (task[1].registered /\ task[1].addr \in DOMAIN connection_states)
        => PassedInWindow(1) <= rate_limit

\* C36: the first message of a connection that arrives when every earlier
\* connection has been closed and unregistered is size-checked against an
\* empty window: no size seen on an earlier connection is in it.
C36_FreshSizeWindow ==
    [][ ( /\ lastEv' # lastEv
          /\ lastEv'.n = 1
          /\ \A u \in ProtoTasks \ {lastEv'.task} : task[u].pc \in {"idle", "done"} )
        => lastEv'.preSizes = <<>> ]_vars

\* the address of connection u is in the three registries
Registered(u, conns, keys, states) ==
    /\ task[u].addr \in DOMAIN conns
    /\ task[u].addr \in DOMAIN keys
    /\ task[u].addr \in DOMAIN states

\* C37: a step of the _close_connection that ends connection t leaves every
\* other established connection u, one from the same remote address
\* included, with its socket open and its address in the connection,
\* peer-key and connection-state registries.
C37_EndIsContained ==
    [][ \A t, u \in ProtoTasks :
           ( /\ t # u
             /\ task[t].pc \in {"finally", "closewait"}
             /\ task'[t].pc # task[t].pc
             /\ task[u].pc = "open"
             /\ task[u].open
             /\ Registered(u, connections, peer_keys, connection_states) )
           => /\ task'[u].open
              /\ Registered(u, connections', peer_keys', connection_states')
      ]_vars

\* C38: in every state of the server the connection registry, the peer-key
\* registry and the connection-state registry hold the same set of
\* addresses.
C38_RegistriesAgree ==
    /\ DOMAIN peer_keys = DOMAIN connections
    /\ DOMAIN connection_states = DOMAIN connections

\* C39: after any sequence of connection-status events and discovery events
\* is_connected is true if and only if connected_service is set.
C39_ConnectedIffService ==
    is_connected <=> status.connected_service # NoInfo

\* C40: in every state of the client connected = true implies that the
\* client holds a socket it has not closed and a peer public key, and that
\* the socket still delivers unless the ping task is alive to notice the
\* loss.
C40_ConnectedHoldsSocketAndKey ==
    client.connected =>
        /\ client.websocket # None
        /\ client.websocket \in wire.open
        /\ client.peer_key # ""
        /\ client.websocket \in wire.alive \/ ActiveMonitors > 0

====
